---- MODULE Spec2Model ----
(***************************************************************************)
(* Element resolution and interaction reliability layer of the browser     *)
(* automation server: ElementLocator.find_element, SmartSelector,          *)
(* EnhancedInspector.find_interactive_element, retry_with_backoff,         *)
(* BrowserController.click_element / wait_for_element_ready,               *)
(* SquareController.click_continue and the tool handlers of server.py.     *)
(*                                                                         *)
(* Every driver call (a Playwright await) is one step whose outcome is     *)
(* drawn from the outcomes the driver can produce.  Each subsystem has its *)
(* own specification (SpecFE, SpecRB, ...) over the shared variables; the  *)
(* variables of the other subsystems stay at their initial values.         *)
(***************************************************************************)
EXTENDS Integers, Sequences, FiniteSets, TLC

VARIABLES
    \* ElementLocator.find_element
    fePc, feOptions, feIdx, feErrors, feTried, feOutcome, feReturned, feExc, feDetails,
    \* WebComponentHandler.retry_with_backoff
    rbPc, rbMax, rbInit, rbAttempt, rbDelay, rbCalls, rbLastError, rbWaits, rbOutcome, rbExc,
    \* BrowserController.wait_for_element_ready (backups/20250325)
    wrPc, wrCaller, wrHasPage, wrEnsure, wrVisible, wrEnabled, wrStable, wrTop, wrCalls,
    wrErrorAt, wrResult, wrRaised,
    \* BrowserController.click_element (backups/20250325)
    cePc, ceHasPage, ceEnsure, ceHandle, ceResolves, ceStale, ceAttempt, ceLog, ceClicks,
    ceResult, ceRaised,
    \* EnhancedInspector.find_interactive_element (backups/20250325)
    eiPc, eiOptions, eiSelectors, eiIdx, eiWaited, eiState, eiResult,
    \* SmartSelector.find_element (utils/smart_selector.py)
    ssPc, ssCandidates, ssSelectors, ssIdx, ssCount, ssBest, ssBestScore, ssBestSeen,
    ssResult, ssRaised, ssScored,
    \* SquareController.click_continue (controllers/square_controller_new.py)
    ccPc, ccIdx, ccIssued, ccLog, ccResult, ccExc,
    \* tool invocations of server.py on the shared browser_controller
    svLaunched, svTool, svPc, svInFlight, svResult,
    \* controller sessions: BrowserController.launch, SquareController(page).login
    msPc, msBrowser, msPage, msHandles, msDir, msPageActs, msFiles,
    \* WebComponentHandler.find_button_by_text (browser_automation_current_backup)
    fbPc, fbText, fbTimeout, fbPhase, fbIdx, fbWaited, fbResult,
    \* WebComponentHandler.wait_for_components (core/web_component_handler.py)
    wcPc, wcComponents, wcTimeout, wcRegistered, wcElapsed, wcResult, wcExc, wcCause,
    \* WebComponentUtils.fill_shadow_input (browser_automation_current_backup/utils/web_components.py)
    fsPc, fsComponent, fsSelector, fsValue, fsInput, fsResult,
    \* BrowserController.navigate (controllers/browser_controller.py and browser_automation_current_backup)
    nvPc, nvVariant, nvHasPage, nvCurrent, nvTarget, nvCalls, nvResponse, nvRaisedAt, nvResult,
    \* tool handlers of both servers and direct controller calls
    tlVariant, tlPage, tlPc, tlCall, tlResult, tlDriver, tlCtl,
    \* SquareController.login and its debug artifacts
    lgPc, lgVariant, lgK, lgStepFailed, lgWriteFailed, lgVerified, lgResult,
    \* is_element_present and handle_cookie_consent
    ipPc, ipResult, hcPc, hcButton, hcClicked, hcWaited, hcRaised,
    \* ElementLocator.wait_for_element
    wePc, weState, weTimeout, weElement, weElapsed, weTotal, weReached, weResult,
    \* BrowserController.click_result_by_text
    crPc, crClick, crResult,
    \* ElementInspector.inspect_page
    inPc, inRoot, inParams, inResult,
    \* BrowserController launch and close: references and driver objects
    bcPc, bcStep, bcVia, bcRef, bcLive, bcLaunches, bcCalls, bcEntry, bcResult,
    \* SquareController.login step by step
    lsPc, lsIdx, lsLog, lsResult,
    \* Request loop of browser_automation_current_backup/main.py
    rqPc, rqShuttingDown, rqPage, rqCur, rqLog, rqOut

feVars == <<fePc, feOptions, feIdx, feErrors, feTried, feOutcome, feReturned, feExc, feDetails>>
rbVars == <<rbPc, rbMax, rbInit, rbAttempt, rbDelay, rbCalls, rbLastError, rbWaits, rbOutcome, rbExc>>
wrVars == <<wrPc, wrCaller, wrHasPage, wrEnsure, wrVisible, wrEnabled, wrStable, wrTop, wrCalls,
           wrErrorAt, wrResult, wrRaised>>
ceVars == <<cePc, ceHasPage, ceEnsure, ceHandle, ceResolves, ceStale, ceAttempt, ceLog, ceClicks,
           ceResult, ceRaised>>
eiVars == <<eiPc, eiOptions, eiSelectors, eiIdx, eiWaited, eiState, eiResult>>
ssVars == <<ssPc, ssCandidates, ssSelectors, ssIdx, ssCount, ssBest, ssBestScore, ssBestSeen,
           ssResult, ssRaised, ssScored>>
ccVars == <<ccPc, ccIdx, ccIssued, ccLog, ccResult, ccExc>>
svVars == <<svLaunched, svTool, svPc, svInFlight, svResult>>
msVars == <<msPc, msBrowser, msPage, msHandles, msDir, msPageActs, msFiles>>
fbVars == <<fbPc, fbText, fbTimeout, fbPhase, fbIdx, fbWaited, fbResult>>
wcVars == <<wcPc, wcComponents, wcTimeout, wcRegistered, wcElapsed, wcResult, wcExc, wcCause>>
fsVars == <<fsPc, fsComponent, fsSelector, fsValue, fsInput, fsResult>>
nvVars == <<nvPc, nvVariant, nvHasPage, nvCurrent, nvTarget, nvCalls, nvResponse, nvRaisedAt, nvResult>>
tlVars == <<tlVariant, tlPage, tlPc, tlCall, tlResult, tlDriver, tlCtl>>
lgVars == <<lgPc, lgVariant, lgK, lgStepFailed, lgWriteFailed, lgVerified, lgResult>>
ipVars == <<ipPc, ipResult, hcPc, hcButton, hcClicked, hcWaited, hcRaised>>
weVars == <<wePc, weState, weTimeout, weElement, weElapsed, weTotal, weReached, weResult>>
crVars == <<crPc, crClick, crResult>>
inVars == <<inPc, inRoot, inParams, inResult>>
bcVars == <<bcPc, bcStep, bcVia, bcRef, bcLive, bcLaunches, bcCalls, bcEntry, bcResult>>
lsVars == <<lsPc, lsIdx, lsLog, lsResult>>
rqVars == <<rqPc, rqShuttingDown, rqPage, rqCur, rqLog, rqOut>>
vars == <<feVars, rbVars, wrVars, ceVars, eiVars, ssVars, ccVars, svVars, msVars, fbVars, wcVars, fsVars, nvVars, tlVars, lgVars, ipVars, weVars, crVars, inVars, bcVars, lsVars, rqVars>>

\* What each subsystem leaves alone.
feOthers == <<rbVars, wrVars, ceVars, eiVars, ssVars, ccVars, svVars, msVars, fbVars, wcVars, fsVars, nvVars, tlVars, lgVars, ipVars, weVars, crVars, inVars, bcVars, lsVars, rqVars>>
rbOthers == <<feVars, wrVars, ceVars, eiVars, ssVars, ccVars, svVars, msVars, fbVars, wcVars, fsVars, nvVars, tlVars, lgVars, ipVars, weVars, crVars, inVars, bcVars, lsVars, rqVars>>
ceOthers == <<feVars, rbVars, eiVars, ssVars, ccVars, svVars, msVars, fbVars, wcVars, fsVars, nvVars, tlVars, lgVars, ipVars, weVars, crVars, inVars, bcVars, lsVars, rqVars>>
eiOthers == <<feVars, rbVars, wrVars, ceVars, ssVars, ccVars, svVars, msVars, fbVars, wcVars, fsVars, nvVars, tlVars, lgVars, ipVars, weVars, crVars, inVars, bcVars, lsVars, rqVars>>
ssOthers == <<feVars, rbVars, wrVars, ceVars, eiVars, ccVars, svVars, msVars, fbVars, wcVars, fsVars, nvVars, tlVars, lgVars, ipVars, weVars, crVars, inVars, bcVars, lsVars, rqVars>>
ccOthers == <<feVars, rbVars, wrVars, ceVars, eiVars, ssVars, svVars, msVars, fbVars, wcVars, fsVars, nvVars, tlVars, lgVars, ipVars, weVars, crVars, inVars, bcVars, lsVars, rqVars>>
svOthers == <<feVars, rbVars, wrVars, ceVars, eiVars, ssVars, ccVars, msVars, fbVars, wcVars, fsVars, nvVars, tlVars, lgVars, ipVars, weVars, crVars, inVars, bcVars, lsVars, rqVars>>

msOthers == <<feVars, rbVars, wrVars, ceVars, eiVars, ssVars, ccVars, svVars, fbVars, wcVars, fsVars, nvVars, tlVars, lgVars, ipVars, weVars, crVars, inVars, bcVars, lsVars, rqVars>>

fbOthers == <<feVars, rbVars, wrVars, ceVars, eiVars, ssVars, ccVars, svVars, msVars, wcVars, fsVars, nvVars, tlVars, lgVars, ipVars, weVars, crVars, inVars, bcVars, lsVars, rqVars>>

wcOthers == <<feVars, rbVars, wrVars, ceVars, eiVars, ssVars, ccVars, svVars, msVars, fbVars, fsVars, nvVars, tlVars, lgVars, ipVars, weVars, crVars, inVars, bcVars, lsVars, rqVars>>

fsOthers == <<feVars, rbVars, wrVars, ceVars, eiVars, ssVars, ccVars, svVars, msVars, fbVars, wcVars, nvVars, tlVars, lgVars, ipVars, weVars, crVars, inVars, bcVars, lsVars, rqVars>>

nvOthers == <<feVars, rbVars, wrVars, ceVars, eiVars, ssVars, ccVars, svVars, msVars, fbVars, wcVars, fsVars, tlVars, lgVars, ipVars, weVars, crVars, inVars, bcVars, lsVars, rqVars>>

tlOthers == <<feVars, rbVars, wrVars, ceVars, eiVars, ssVars, ccVars, svVars, msVars, fbVars, wcVars, fsVars, nvVars, lgVars, ipVars, weVars, crVars, inVars, bcVars, lsVars, rqVars>>

lgOthers == <<feVars, rbVars, wrVars, ceVars, eiVars, ssVars, ccVars, svVars, msVars, fbVars, wcVars, fsVars, nvVars, tlVars, ipVars, weVars, crVars, inVars, bcVars, lsVars, rqVars>>

ipOthers == <<feVars, rbVars, wrVars, ceVars, eiVars, ssVars, ccVars, svVars, msVars, fbVars, wcVars, fsVars, nvVars, tlVars, lgVars, weVars, crVars, inVars, bcVars, lsVars, rqVars>>

weOthers == <<feVars, rbVars, wrVars, ceVars, eiVars, ssVars, ccVars, svVars, msVars, fbVars, wcVars, fsVars, nvVars, tlVars, lgVars, ipVars, crVars, inVars, bcVars, lsVars, rqVars>>

crOthers == <<feVars, rbVars, wrVars, ceVars, eiVars, ssVars, ccVars, svVars, msVars, fbVars, wcVars, fsVars, nvVars, tlVars, lgVars, ipVars, weVars, inVars, bcVars, lsVars, rqVars>>

inOthers == <<feVars, rbVars, wrVars, ceVars, eiVars, ssVars, ccVars, svVars, msVars, fbVars, wcVars, fsVars, nvVars, tlVars, lgVars, ipVars, weVars, crVars, bcVars, lsVars, rqVars>>

bcOthers == <<feVars, rbVars, wrVars, ceVars, eiVars, ssVars, ccVars, svVars, msVars, fbVars, wcVars, fsVars, nvVars, tlVars, lgVars, ipVars, weVars, crVars, inVars, lsVars, rqVars>>

lsOthers == <<feVars, rbVars, wrVars, ceVars, eiVars, ssVars, ccVars, svVars, msVars, fbVars, wcVars, fsVars, nvVars, tlVars, lgVars, ipVars, weVars, crVars, inVars, bcVars, rqVars>>

rqOthers == <<feVars, rbVars, wrVars, ceVars, eiVars, ssVars, ccVars, svVars, msVars, fbVars, wcVars, fsVars, nvVars, tlVars, lgVars, ipVars, weVars, crVars, inVars, bcVars, lsVars>>

None == "None"

(***************************************************************************)
(* ElementLocator.find_element (core/element_locator.py)                   *)
(***************************************************************************)

\* The strategies list with the text strategy placed ahead of the test-id one.
StrategyKeysTextFirst == <<"text", "test_id", "role", "tag", "label", "placeholder", "class_name">>

\* The option keys the strategies read, in the order of the strategies list.
StrategyKeys == <<"test_id", "text", "role", "tag", "label", "placeholder", "class_name">>

\* Keys an options mapping may carry: the seven recognised ones and "id",
\* which handle_cookie_consent passes and no strategy reads.
OptionKeys == {StrategyKeys[i] : i \in 1..Len(StrategyKeys)} \cup {"id"}

\* A key is absent, maps to the empty string, or maps to a non-empty string.
OptionValues == {"absent", "empty", "set"}

\* Options mappings explored: at most MaxEmptyKeys keys map to the empty string.
MaxEmptyKeys == 1

Options ==
    {o \in [OptionKeys -> OptionValues] :
        /\ o["id"] # "empty"
        /\ Cardinality({k \in OptionKeys : o[k] = "empty"}) <= MaxEmptyKeys}

\* A test for the presence of the key only: the empty string passes it.
TruthyIfPresent(v) == v # "absent"

\* options.get(key) is truthy: the key is present with a non-empty value.
Truthy(v) == v = "set"

\* What locator.wait_for(state='visible', timeout) can do: return, time out,
\* or fail with another driver error (bad selector, closed page).
WaitOutcomes == {"ok", "TimeoutError", "Error"}

\* except Exception at element_locator.py:85 catches only TimeoutError.
FE_CatchesTimeoutOnly(e) == e = "TimeoutError"

\* except Exception at element_locator.py:85: every driver failure is caught.
FE_Catches(e) == e \in {"TimeoutError", "Error"}

\* One resolution is followed at a time: a call starts when no
\* find_button_by_text is in progress.
FE_Call ==
    /\ fePc = "idle"
    /\ fbPc = "idle"
    /\ \E o \in Options : feOptions' = o
    /\ fePc' = "loop"
    /\ feIdx' = 1
    /\ feErrors' = <<>>
    /\ feTried' = <<>>
    /\ UNCHANGED <<feOutcome, feReturned, feExc, feDetails>>
    /\ UNCHANGED feOthers

\* strategy() yields a falsy value: the strategy is skipped without a wait.
FE_SkipStrategy ==
    /\ fePc = "loop"
    /\ feIdx <= Len(StrategyKeys)
    /\ ~Truthy(feOptions[StrategyKeys[feIdx]])
    /\ feIdx' = feIdx + 1
    /\ UNCHANGED <<fePc, feOptions, feErrors, feTried, feOutcome, feReturned, feExc, feDetails>>
    /\ UNCHANGED feOthers

\* strategy() yields a locator and the code awaits locator.wait_for.
FE_WaitVisible ==
    /\ fePc = "loop"
    /\ feIdx <= Len(StrategyKeys)
    /\ Truthy(feOptions[StrategyKeys[feIdx]])
    /\ \E w \in WaitOutcomes :
        /\ feTried' = Append(feTried, [key |-> StrategyKeys[feIdx], outcome |-> w])
        /\ IF w = "ok"
           THEN /\ fePc' = "done"
                /\ feOutcome' = "returned"
                /\ feReturned' = StrategyKeys[feIdx]
                /\ UNCHANGED <<feIdx, feErrors, feExc, feDetails>>
           ELSE IF FE_Catches(w)
           THEN /\ feErrors' = Append(feErrors, w)
                /\ feIdx' = feIdx + 1
                /\ UNCHANGED <<fePc, feOutcome, feReturned, feExc, feDetails>>
           ELSE /\ fePc' = "done"
                /\ feOutcome' = "raised"
                /\ feExc' = w
                /\ UNCHANGED <<feIdx, feErrors, feReturned, feDetails>>
    /\ UNCHANGED feOptions
    /\ UNCHANGED feOthers

\* The loop is exhausted: raise ElementNotFoundError(details={'errors': errors}).
FE_RaiseNotFound ==
    /\ fePc = "loop"
    /\ feIdx > Len(StrategyKeys)
    /\ fePc' = "done"
    /\ feOutcome' = "raised"
    /\ feExc' = "ElementNotFoundError"
    /\ feDetails' = feErrors
    /\ UNCHANGED <<feOptions, feIdx, feErrors, feTried, feReturned>>
    /\ UNCHANGED feOthers

InitFE ==
    /\ fePc = "idle"
    /\ feOptions = [k \in OptionKeys |-> "absent"]
    /\ feIdx = 1
    /\ feErrors = <<>>
    /\ feTried = <<>>
    /\ feOutcome = None
    /\ feReturned = None
    /\ feExc = None
    /\ feDetails = <<>>

(***************************************************************************)
(* WebComponentHandler.retry_with_backoff                                  *)
(* (browser_automation_current_backup/core/web_component_handler.py)       *)
(***************************************************************************)

MaxRetries == 4
MaxInitialDelay == 3

\* delay grows by initial_delay after each failed attempt.
RB_NextDelayLinear(delay, initial) == delay + initial

\* delay *= 2 (web_component_handler.py:148).
RB_NextDelay(delay, initial) == delay * 2

\* last_error = None (web_component_handler.py:135).
RB_NoError == [kind |-> "None", call |-> 0]

\* The error raised by the action on its n-th invocation.
RB_ActionError(n) == [kind |-> "ActionError", call |-> n]

\* A wait follows every failed attempt.
RB_WaitsAfterEvery(attempt, max) == TRUE

\* if attempt < max_retries - 1 (web_component_handler.py:143).
RB_WaitsAfter(attempt, max) == attempt < max - 1

RB_Call ==
    /\ rbPc = "idle"
    /\ \E m \in 0..MaxRetries, d \in 1..MaxInitialDelay :
        /\ rbMax' = m
        /\ rbInit' = d
        /\ rbDelay' = d
    /\ rbPc' = "loop"
    /\ rbAttempt' = 0
    /\ rbLastError' = RB_NoError
    /\ rbCalls' = 0
    /\ rbWaits' = <<>>
    /\ UNCHANGED <<rbOutcome, rbExc>>
    /\ UNCHANGED rbOthers

\* One iteration of the for loop up to its first await: await action().
RB_Attempt ==
    /\ rbPc = "loop"
    /\ rbAttempt < rbMax
    /\ rbCalls' = rbCalls + 1
    /\ \/ /\ rbPc' = "done"
          /\ rbOutcome' = "returned"
          /\ UNCHANGED <<rbLastError, rbAttempt, rbExc>>
       \/ /\ rbLastError' = RB_ActionError(rbCalls + 1)
          /\ IF RB_WaitsAfter(rbAttempt, rbMax)
             THEN rbPc' = "wait" /\ UNCHANGED rbAttempt
             ELSE rbPc' = "loop" /\ rbAttempt' = rbAttempt + 1
          /\ UNCHANGED <<rbOutcome, rbExc>>
    /\ UNCHANGED <<rbMax, rbInit, rbDelay, rbWaits>>
    /\ UNCHANGED rbOthers

\* await self.page.wait_for_timeout(delay); delay *= 2.  The wait is a driver
\* call inside the except block: if it fails, its error leaves the function.
RB_Wait ==
    /\ rbPc = "wait"
    /\ \/ /\ rbWaits' = Append(rbWaits, rbDelay)
          /\ rbDelay' = RB_NextDelay(rbDelay, rbInit)
          /\ rbAttempt' = rbAttempt + 1
          /\ rbPc' = "loop"
          /\ UNCHANGED <<rbOutcome, rbExc>>
       \/ /\ rbPc' = "done"
          /\ rbOutcome' = "raised"
          /\ rbExc' = [kind |-> "Error", call |-> 0]
          /\ UNCHANGED <<rbWaits, rbDelay, rbAttempt>>
    /\ UNCHANGED <<rbMax, rbInit, rbCalls, rbLastError>>
    /\ UNCHANGED rbOthers

\* raise last_error; raising None is a TypeError in Python.
RB_RaiseLast ==
    /\ rbPc = "loop"
    /\ rbAttempt >= rbMax
    /\ rbPc' = "done"
    /\ rbOutcome' = "raised"
    /\ rbExc' = IF rbLastError = RB_NoError THEN [kind |-> "TypeError", call |-> 0] ELSE rbLastError
    /\ UNCHANGED <<rbMax, rbInit, rbAttempt, rbDelay, rbCalls, rbLastError, rbWaits>>
    /\ UNCHANGED rbOthers

InitRB ==
    /\ rbPc = "idle"
    /\ rbMax = 0
    /\ rbInit = 1
    /\ rbAttempt = 0
    /\ rbDelay = 1
    /\ rbCalls = 0
    /\ rbLastError = RB_NoError
    /\ rbWaits = <<>>
    /\ rbOutcome = None
    /\ rbExc = RB_NoError

(***************************************************************************)
(* BrowserController.wait_for_element_ready                                *)
(* (backups/20250325/browser_controller.py)                                *)
(***************************************************************************)

\* What a boolean driver query (is_visible, is_enabled) can do.
QueryOutcomes == {"yes", "no", "Error"}

\* What document.elementFromPoint(centre) can be, relative to the element:
\* the element, a node inside it, a node outside it, or null.
TopNodes == {"self", "descendant", "other", "null"}

\* The script only checks that some node is at the centre point.
WR_NoOverlaysAnyNode(top) == top # "null"

\* element.contains(elementAtPoint) || element === elementAtPoint
\* (browser_controller.py:76); contains(null) is false.
WR_NoOverlays(top) == top \in {"self", "descendant"}

\* The outer handler is except ValueError only.
WR_OuterCatchesValueError(e) == e = "ValueError"

\* except Exception at browser_controller.py:88.
WR_OuterCatches(e) == e \in {"ValueError", "Error", "TimeoutError"}

\* return <res> from wait_for_element_ready after the checks ran.
WR_Return(res) ==
    /\ wrPc' = "done"
    /\ wrResult' = res
    /\ wrRaised' = None
    /\ UNCHANGED wrErrorAt

\* The inner handlers (browser_controller.py:63, 82): the failed call at
\* makes the function return False.
WR_InnerFail(at) ==
    /\ wrPc' = "done"
    /\ wrResult' = "False"
    /\ wrRaised' = None
    /\ wrErrorAt' = at

\* An exception e raised by the call at reaches the outer try.
WR_Throw(e, at) ==
    /\ wrPc' = "done"
    /\ wrErrorAt' = at
    /\ IF WR_OuterCatches(e)
       THEN wrResult' = "False" /\ wrRaised' = None
       ELSE wrResult' = "unset" /\ wrRaised' = e

\* The state of a fresh call.
WR_Enter(caller, hasPage, ensure) ==
    /\ wrPc' = "ensure_page"
    /\ wrCaller' = caller
    /\ wrHasPage' = hasPage
    /\ wrEnsure' = ensure
    /\ wrVisible' = "unset"
    /\ wrEnabled' = "unset"
    /\ wrStable' = "unset"
    /\ wrTop' = "unset"
    /\ wrCalls' = <<>>
    /\ wrErrorAt' = None
    /\ wrResult' = "unset"
    /\ wrRaised' = None

\* A caller other than click_element checks an element it holds.
WR_Call ==
    /\ wrPc = "idle"
    /\ cePc = "idle"
    /\ \E hasPage \in BOOLEAN, ensure \in BOOLEAN : WR_Enter("direct", hasPage, ensure)
    /\ UNCHANGED <<ceVars, ceOthers>>

\* page = self._ensure_page(): ValueError when no page is set.
WR_EnsurePage ==
    /\ wrPc = "ensure_page"
    /\ IF wrHasPage
       THEN wrPc' = "is_visible" /\ UNCHANGED <<wrErrorAt, wrResult, wrRaised>>
       ELSE WR_Throw("ValueError", "ensure_page")
    /\ UNCHANGED <<wrCaller, wrHasPage, wrEnsure, wrVisible, wrEnabled, wrStable, wrTop, wrCalls>>
    /\ UNCHANGED <<ceVars, ceOthers>>

\* is_visible = await element.is_visible()
WR_IsVisible ==
    /\ wrPc = "is_visible"
    /\ wrCalls' = Append(wrCalls, "is_visible")
    /\ \E q \in QueryOutcomes :
        IF q = "Error"
        THEN WR_Throw("Error", "is_visible") /\ UNCHANGED wrVisible
        ELSE wrVisible' = q /\ wrPc' = "is_enabled" /\ UNCHANGED <<wrErrorAt, wrResult, wrRaised>>
    /\ UNCHANGED <<wrCaller, wrHasPage, wrEnsure, wrEnabled, wrStable, wrTop>>
    /\ UNCHANGED <<ceVars, ceOthers>>

\* is_enabled = await element.is_enabled(); if not (is_visible and is_enabled): return False
WR_IsEnabled ==
    /\ wrPc = "is_enabled"
    /\ wrCalls' = Append(wrCalls, "is_enabled")
    /\ \E q \in QueryOutcomes :
        IF q = "Error"
        THEN WR_Throw("Error", "is_enabled") /\ UNCHANGED wrEnabled
        ELSE /\ wrEnabled' = q
             /\ IF ~(wrVisible = "yes" /\ q = "yes")
                THEN WR_Return("False")
                ELSE /\ wrPc' = IF wrEnsure THEN "scroll" ELSE "overlay"
                     /\ UNCHANGED <<wrErrorAt, wrResult, wrRaised>>
    /\ UNCHANGED <<wrCaller, wrHasPage, wrEnsure, wrVisible, wrStable, wrTop>>
    /\ UNCHANGED <<ceVars, ceOthers>>

\* await element.scroll_into_view_if_needed()
WR_Scroll ==
    /\ wrPc = "scroll"
    /\ wrCalls' = Append(wrCalls, "scroll_into_view")
    /\ \/ wrPc' = "stable" /\ UNCHANGED <<wrErrorAt, wrResult, wrRaised>>
       \/ WR_Throw("Error", "scroll_into_view")
    /\ UNCHANGED <<wrCaller, wrHasPage, wrEnsure, wrVisible, wrEnabled, wrStable, wrTop>>
    /\ UNCHANGED <<ceVars, ceOthers>>

\* await element.wait_for_element_state('stable', timeout=5000); the inner
\* handler returns False on any error.
WR_Stable ==
    /\ wrPc = "stable"
    /\ wrCalls' = Append(wrCalls, "wait_stable")
    /\ \/ /\ wrStable' = "yes"
          /\ wrPc' = "overlay"
          /\ UNCHANGED <<wrErrorAt, wrResult, wrRaised>>
       \/ /\ wrStable' = "no"
          /\ WR_InnerFail("wait_stable")
    /\ UNCHANGED <<wrCaller, wrHasPage, wrEnsure, wrVisible, wrEnabled, wrTop>>
    /\ UNCHANGED <<ceVars, ceOthers>>

\* no_overlays = await page.evaluate(...); the inner handler returns False on
\* any error.
WR_Overlay ==
    /\ wrPc = "overlay"
    /\ wrCalls' = Append(wrCalls, "evaluate_overlay")
    /\ \/ \E top \in TopNodes :
            /\ wrTop' = top
            /\ WR_Return(IF WR_NoOverlays(top) THEN "True" ELSE "False")
       \/ /\ wrTop' = "Error"
          /\ WR_InnerFail("evaluate_overlay")
    /\ UNCHANGED <<wrCaller, wrHasPage, wrEnsure, wrVisible, wrEnabled, wrStable>>
    /\ UNCHANGED <<ceVars, ceOthers>>

InitWR ==
    /\ wrPc = "idle"
    /\ wrCaller = None
    /\ wrHasPage = FALSE
    /\ wrEnsure = FALSE
    /\ wrVisible = "unset"
    /\ wrEnabled = "unset"
    /\ wrStable = "unset"
    /\ wrTop = "unset"
    /\ wrCalls = <<>>
    /\ wrErrorAt = None
    /\ wrResult = "unset"
    /\ wrRaised = None

(***************************************************************************)
(* BrowserController.click_element (backups/20250325/browser_controller.py)*)
(***************************************************************************)

\* max_attempts = 3 (browser_controller.py:169)
CE_MaxAttempts == 3

\* The element a retry acts on: the loop body uses the variable element,
\* assigned once at browser_controller.py:153, whatever the failure was.
CE_RetryHandle(handle, resolves) == handle

\* if attempt == max_attempts - 1: return False (browser_controller.py:183)
CE_IsLastAttempt(attempt) == attempt = CE_MaxAttempts - 1

\* return <res> from click_element.
CE_Return(res) ==
    /\ cePc' = "done"
    /\ ceResult' = res
    /\ ceRaised' = None

CE_Call ==
    /\ cePc = "idle"
    /\ wrPc = "idle"
    /\ \E hasPage \in BOOLEAN, ensure \in BOOLEAN :
        /\ ceHasPage' = hasPage
        /\ ceEnsure' = ensure
    /\ cePc' = "ensure_page"
    /\ ceHandle' = 0
    /\ ceResolves' = 0
    /\ ceStale' = FALSE
    /\ ceAttempt' = 0
    /\ ceLog' = <<>>
    /\ ceClicks' = 0
    /\ ceResult' = "unset"
    /\ ceRaised' = None
    /\ UNCHANGED wrVars
    /\ UNCHANGED ceOthers

\* page = self._ensure_page(); except ValueError: return False
CE_EnsurePage ==
    /\ cePc = "ensure_page"
    /\ IF ceHasPage
       THEN cePc' = "wait_selector" /\ UNCHANGED <<ceResult, ceRaised>>
       ELSE CE_Return("False")
    /\ UNCHANGED <<ceHasPage, ceEnsure, ceHandle, ceResolves, ceStale, ceAttempt, ceLog, ceClicks>>
    /\ UNCHANGED wrVars
    /\ UNCHANGED ceOthers

\* element = await page.wait_for_selector(selector, state='visible', timeout)
CE_WaitSelector ==
    /\ cePc = "wait_selector"
    /\ \/ /\ ceResolves' = ceResolves + 1
          /\ ceHandle' = ceResolves + 1
          /\ cePc' = "ready"
          /\ UNCHANGED <<ceResult, ceRaised>>
       \/ /\ CE_Return("False")
          /\ UNCHANGED <<ceResolves, ceHandle>>
    /\ UNCHANGED <<ceHasPage, ceEnsure, ceStale, ceAttempt, ceLog, ceClicks>>
    /\ UNCHANGED wrVars
    /\ UNCHANGED ceOthers

\* await self.wait_for_element_ready(element, ensure_visible): the call.
CE_Ready ==
    /\ cePc = "ready"
    /\ wrPc \in {"idle", "done"}
    /\ WR_Enter("click_element", ceHasPage, ceEnsure)
    /\ cePc' = "ready_wait"
    /\ UNCHANGED <<ceHasPage, ceEnsure, ceHandle, ceResolves, ceStale, ceAttempt, ceLog, ceClicks,
                   ceResult, ceRaised>>
    /\ UNCHANGED ceOthers

\* if not await self.wait_for_element_ready(...): return False
CE_AfterReady ==
    /\ cePc = "ready_wait"
    /\ wrPc = "done"
    /\ wrCaller = "click_element"
    /\ IF wrResult = "True"
       THEN cePc' = "hover" /\ UNCHANGED <<ceResult, ceRaised>>
       ELSE CE_Return("False")
    /\ wrPc' = "idle"
    /\ UNCHANGED <<wrCaller, wrHasPage, wrEnsure, wrVisible, wrEnabled, wrStable, wrTop, wrCalls,
                   wrErrorAt, wrResult, wrRaised>>
    /\ UNCHANGED <<ceHasPage, ceEnsure, ceHandle, ceResolves, ceStale, ceAttempt, ceLog, ceClicks>>
    /\ UNCHANGED ceOthers

\* The except block of one attempt: give up on the last attempt, otherwise go
\* on to remove overlays and retry.
CE_AttemptFailed(outcome) ==
    /\ ceLog' = Append(ceLog, [handle |-> ceHandle, outcome |-> outcome])
    /\ ceStale' = (ceStale \/ outcome = "detached")
    /\ IF CE_IsLastAttempt(ceAttempt)
       THEN CE_Return("False")
       ELSE cePc' = "remove_overlays" /\ UNCHANGED <<ceResult, ceRaised>>

\* await element.hover(); a handle whose node left the document always fails.
CE_Hover ==
    /\ cePc = "hover"
    /\ \/ /\ ~ceStale
          /\ cePc' = "click"
          /\ UNCHANGED <<ceLog, ceStale, ceResult, ceRaised>>
       \/ /\ ~ceStale
          /\ CE_AttemptFailed("hover_error")
       \/ CE_AttemptFailed("detached")
    /\ UNCHANGED <<ceHasPage, ceEnsure, ceHandle, ceResolves, ceAttempt, ceClicks>>
    /\ UNCHANGED wrVars
    /\ UNCHANGED ceOthers

\* await element.click()
CE_Click ==
    /\ cePc = "click"
    /\ ceClicks' = ceClicks + 1
    /\ \/ /\ cePc' = "networkidle"
          /\ UNCHANGED <<ceLog, ceStale, ceResult, ceRaised>>
       \/ CE_AttemptFailed("click_error")
       \/ CE_AttemptFailed("detached")
    /\ UNCHANGED <<ceHasPage, ceEnsure, ceHandle, ceResolves, ceAttempt>>
    /\ UNCHANGED wrVars
    /\ UNCHANGED ceOthers

\* await page.wait_for_load_state("networkidle", timeout=5000); return True
CE_NetworkIdle ==
    /\ cePc = "networkidle"
    /\ \/ /\ ceLog' = Append(ceLog, [handle |-> ceHandle, outcome |-> "ok"])
          /\ CE_Return("True")
          /\ UNCHANGED ceStale
       \/ CE_AttemptFailed("idle_timeout")
    /\ UNCHANGED <<ceHasPage, ceEnsure, ceHandle, ceResolves, ceAttempt, ceClicks>>
    /\ UNCHANGED wrVars
    /\ UNCHANGED ceOthers

\* await page.evaluate(<remove overlays>): the loop goes on whether or not the
\* script fails; the next iteration uses the same element.
CE_RemoveOverlays ==
    /\ cePc = "remove_overlays"
    /\ ceAttempt' = ceAttempt + 1
    /\ ceHandle' = CE_RetryHandle(ceHandle, ceResolves)
    /\ ceResolves' = IF ceHandle' = ceHandle THEN ceResolves ELSE ceResolves + 1
    /\ ceStale' = IF ceHandle' = ceHandle THEN ceStale ELSE FALSE
    /\ cePc' = "hover"
    /\ UNCHANGED <<ceHasPage, ceEnsure, ceLog, ceClicks, ceResult, ceRaised>>
    /\ UNCHANGED wrVars
    /\ UNCHANGED ceOthers

InitCE ==
    /\ cePc = "idle"
    /\ ceHasPage = FALSE
    /\ ceEnsure = FALSE
    /\ ceHandle = 0
    /\ ceResolves = 0
    /\ ceStale = FALSE
    /\ ceAttempt = 0
    /\ ceLog = <<>>
    /\ ceClicks = 0
    /\ ceResult = "unset"
    /\ ceRaised = None

(***************************************************************************)
(* EnhancedInspector.find_interactive_element and _build_selectors         *)
(* (backups/20250325/enhanced_inspector.py)                                *)
(***************************************************************************)

\* The option keys _build_selectors reads; TRUE when options.get(key) is truthy.
EI_OptionKeys == {"text", "role", "attributes", "position", "tag", "near"}

\* selectors.extend / selectors.append, in the order of the source.
EI_BuildSelectors(o) ==
    (IF o["text"] /\ o["role"] THEN <<"role_text", "role_has_text">> ELSE <<>>)
    \o (IF o["attributes"] THEN <<"attributes_xpath">> ELSE <<>>)
    \o (IF o["position"] THEN <<"nth_of_type", "xpath_position">> ELSE <<>>)
    \o (IF o["text"] THEN <<"text_exact", "text_regex_i", "aria_label">> ELSE <<>>)
    \o (IF o["role"] THEN <<"role">> ELSE <<>>)
    \o (IF o["near"] THEN <<"near_xpath">> ELSE <<>>)

\* What page.wait_for_selector(selector, state='visible') yields.
EI_WaitOutcomes == {"element", "none", "Error"}

\* What inspect_element_state returns: the dict of the page script with
\* clickable true or false, {"exists": False} when the script found no node,
\* {"error": ...} when page.evaluate raised.
EI_States == {"clickable", "notclickable", "missing", "error"}

\* state.get('clickable', False)
EI_Clickable(state) == state = "clickable"

\* One resolution runs at a time: a call starts when no other is in progress.
EI_Call ==
    /\ UNCHANGED eiOthers
    /\ eiPc = "idle"
    /\ ssPc = "idle"
    /\ \E o \in [EI_OptionKeys -> BOOLEAN] :
        /\ eiOptions' = o
        /\ eiSelectors' = EI_BuildSelectors(o)
    /\ eiPc' = "wait"
    /\ eiIdx' = 1
    /\ eiWaited' = None
    /\ eiState' = None
    /\ eiResult' = None

\* element = await self.page.wait_for_selector(selector, state='visible', ...)
EI_WaitSelector ==
    /\ UNCHANGED eiOthers
    /\ eiPc = "wait"
    /\ eiIdx <= Len(eiSelectors)
    /\ \E w \in EI_WaitOutcomes :
        /\ eiWaited' = w
        /\ IF w = "element"
           THEN eiPc' = "inspect" /\ UNCHANGED eiIdx
           ELSE eiPc' = "wait" /\ eiIdx' = eiIdx + 1
    /\ eiState' = None
    /\ UNCHANGED <<eiOptions, eiSelectors, eiResult>>

\* state = await self.inspect_element_state(selector); return element when
\* state.get('clickable', False), otherwise go on to the next selector.
EI_InspectState ==
    /\ UNCHANGED eiOthers
    /\ eiPc = "inspect"
    /\ \E st \in EI_States :
        /\ eiState' = st
        /\ IF EI_Clickable(st)
           THEN /\ eiPc' = "done"
                /\ eiResult' = eiSelectors[eiIdx]
                /\ UNCHANGED eiIdx
           ELSE /\ eiPc' = "wait"
                /\ eiIdx' = eiIdx + 1
                /\ UNCHANGED eiResult
    /\ UNCHANGED <<eiOptions, eiSelectors, eiWaited>>

\* The selectors are exhausted: return None.
EI_ReturnNone ==
    /\ UNCHANGED eiOthers
    /\ eiPc = "wait"
    /\ eiIdx > Len(eiSelectors)
    /\ eiPc' = "done"
    /\ eiResult' = None
    /\ UNCHANGED <<eiOptions, eiSelectors, eiIdx, eiWaited, eiState>>

InitEI ==
    /\ eiPc = "idle"
    /\ eiOptions = [k \in EI_OptionKeys |-> FALSE]
    /\ eiSelectors = <<>>
    /\ eiIdx = 1
    /\ eiWaited = None
    /\ eiState = None
    /\ eiResult = None

(***************************************************************************)
(* SmartSelector (utils/smart_selector.py)                                 *)
(***************************************************************************)

\* The selectors one call generates and tests, and the elements one selector
\* matches, at most.
MaxSelectors == 3
MaxMatches == 2

\* A candidate element as _find_candidate_elements reports it: whether it has
\* an id, how many attributes other than id and class have a value, whether it
\* has classes, and its text (none, without spaces, with one space).
SS_Candidates ==
    [hasId : BOOLEAN, attrs : 0..(MaxSelectors - 1), hasClasses : BOOLEAN,
     text : {"none", "plain", "spaced"}]

\* A selector as _score_selector reads it: whether it starts with '#', and
\* how many ' ' and '[' it contains.
SS_Selector(kind, isId, spaces, brackets) ==
    [kind |-> kind, isId |-> isId, spaces |-> spaces, brackets |-> brackets]

\* The position selector: three ' ' and three '[' in its fixed text, and the
\* dict of getBoundingClientRect().toJSON() (8 keys) formatted into it.
SS_PositionSpaces == 18
SS_PositionBrackets == 3

\* _generate_selector_strategies(element)
SS_GenerateSelectors(c) ==
    (IF c.hasId THEN <<SS_Selector("id", TRUE, 0, 0)>> ELSE <<>>)
    \o [i \in 1..c.attrs |-> SS_Selector("attribute", FALSE, 0, 1)]
    \o (IF c.hasClasses THEN <<SS_Selector("class", FALSE, 0, 0)>> ELSE <<>>)
    \o (IF c.text = "none" THEN <<>>
        ELSE <<SS_Selector("text", FALSE, IF c.text = "spaced" THEN 1 ELSE 0, 0)>>)
    \o <<SS_Selector("position", FALSE, SS_PositionSpaces, SS_PositionBrackets)>>

\* selectors.extend(selector_strategies) over the candidates.
RECURSIVE SS_AllSelectors(_)
SS_AllSelectors(cands) ==
    IF cands = <<>> THEN <<>>
    ELSE SS_GenerateSelectors(Head(cands)) \o SS_AllSelectors(Tail(cands))

Max0(a) == IF a > 0 THEN a ELSE 0

\* _score_selector(selector, match_count); seen is what the visibility script
\* gave: "visible", "hidden", or "Error" when page.evaluate raised.
SS_ScoreSelector(sel, matchCount, seen) ==
    IF seen = "Error" THEN 0
    ELSE Max0(100 - (IF matchCount > 1 THEN (matchCount - 1) * 10 ELSE 0)
                  + (IF sel.isId THEN 50 ELSE 0)
                  - sel.spaces * 5 - sel.brackets * 3
                  - (IF seen = "hidden" THEN 30 ELSE 0))

\* The candidate lists the page script can give for which at most n
\* selectors are generated.
RECURSIVE SS_CandidateLists(_)
SS_CandidateLists(n) ==
    {<<>>} \cup
    UNION {{<<c>> \o l : l \in SS_CandidateLists(n - Len(SS_GenerateSelectors(c)))} :
              c \in {d \in SS_Candidates : Len(SS_GenerateSelectors(d)) <= n}}

\* elements = [elements[target_index - 1]] if 0 <= target_index - 1 < len(elements) else []
SS_FilterByIndex(elements, targetIndex) ==
    IF targetIndex = -1 \/ elements = <<>> THEN elements
    ELSE IF 0 <= targetIndex - 1 /\ targetIndex - 1 < Len(elements)
         THEN <<elements[targetIndex]>>
         ELSE <<>>

\* find_element -> find_best_selector -> _find_candidate_elements: the page
\* script gives the candidates or page.evaluate raises (nothing catches it).
\* target_index is -1 when the caller passes None.
SS_Call ==
    /\ UNCHANGED ssOthers
    /\ ssPc = "idle"
    /\ eiPc = "idle"
    /\ \/ \E els \in SS_CandidateLists(MaxSelectors),
             targetIndex \in -1..(MaxSelectors + 1) :
            /\ ssCandidates' = SS_FilterByIndex(els, targetIndex)
            /\ ssSelectors' = SS_AllSelectors(ssCandidates')
            /\ IF ssCandidates' = <<>>
               THEN ssPc' = "done"
               ELSE ssPc' = "query"
            /\ ssRaised' = None
       \/ /\ ssPc' = "done"
          /\ ssRaised' = "Error"
          /\ ssCandidates' = <<>>
          /\ ssSelectors' = <<>>
    /\ ssIdx' = 1
    /\ ssCount' = 0
    /\ ssBest' = 0
    /\ ssBestScore' = -1
    /\ ssBestSeen' = None
    /\ ssResult' = 0
    /\ ssScored' = <<>>

\* elements = await self.page.query_selector_all(selector); an empty result
\* and a driver error (count -1 here) both go on to the next selector.
SS_Query ==
    /\ UNCHANGED ssOthers
    /\ ssPc = "query"
    /\ ssIdx <= Len(ssSelectors)
    /\ \/ \E n \in 1..MaxMatches :
            /\ ssCount' = n
            /\ ssPc' = "score"
            /\ UNCHANGED ssIdx
       \/ /\ ssCount' \in {0, -1}
          /\ ssIdx' = ssIdx + 1
          /\ ssPc' = "query"
    /\ UNCHANGED <<ssCandidates, ssSelectors, ssBest, ssBestScore, ssBestSeen,
                   ssResult, ssRaised, ssScored>>

\* A later selector with the same score replaces the best one.
SS_BetterOrEqual(score, best) == score >= best

\* if score > best_score
SS_Better(score, best) == score > best

\* score = await self._score_selector(selector, len(elements));
\* if score > best_score: best_score, best_selector = score, selector
SS_Score ==
    /\ UNCHANGED ssOthers
    /\ ssPc = "score"
    /\ \E seen \in {"visible", "hidden", "Error"} :
        LET score == SS_ScoreSelector(ssSelectors[ssIdx], ssCount, seen) IN
        /\ ssScored' = Append(ssScored, [idx |-> ssIdx, count |-> ssCount, seen |-> seen,
                                         score |-> score])
        /\ IF SS_Better(score, ssBestScore)
           THEN /\ ssBest' = ssIdx
                /\ ssBestScore' = score
                /\ ssBestSeen' = seen
           ELSE UNCHANGED <<ssBest, ssBestScore, ssBestSeen>>
    /\ ssIdx' = ssIdx + 1
    /\ ssPc' = "query"
    /\ UNCHANGED <<ssCandidates, ssSelectors, ssCount, ssResult, ssRaised>>

\* return best_selector; find_element returns self.page.locator(selector), or
\* None when there is no selector.
SS_Return ==
    /\ UNCHANGED ssOthers
    /\ ssPc = "query"
    /\ ssIdx > Len(ssSelectors)
    /\ ssPc' = "done"
    /\ ssResult' = ssBest
    /\ UNCHANGED <<ssCandidates, ssSelectors, ssIdx, ssCount, ssBest, ssBestScore, ssBestSeen,
                   ssRaised, ssScored>>

InitSS ==
    /\ ssPc = "idle"
    /\ ssCandidates = <<>>
    /\ ssSelectors = <<>>
    /\ ssIdx = 1
    /\ ssCount = 0
    /\ ssBest = 0
    /\ ssBestScore = -1
    /\ ssBestSeen = None
    /\ ssResult = 0
    /\ ssRaised = None
    /\ ssScored = <<>>

(***************************************************************************)
(* SquareController.click_continue                                         *)
(* (controllers/square_controller_new.py)                                  *)
(***************************************************************************)

\* The strategies list: page.click, script button.click(), script
\* dispatchEvent(new MouseEvent('click')), page.mouse.click at the centre.
CC_Mechanisms == <<"native", "script", "synthetic", "coordinate">>

\* What the check after a strategy that did not raise can give: the password
\* field is there, it is not, or page.evaluate raised.
CC_CheckOutcomes == {"password", "no_password", "check_raised"}

\* The loop never returns early.
CC_MovedToPasswordIgnored(seen) == FALSE

\* if has_password: return (square_controller_new.py:219)
CC_MovedToPassword(seen) == seen = "password"

\* Any exception in the body reaches except Exception at line 233 and leaves
\* as InteractionError("Failed to click continue button").
CC_Raise ==
    /\ ccPc' = "done"
    /\ ccResult' = "raised"
    /\ ccExc' = "InteractionError"

CC_Call ==
    /\ UNCHANGED ccOthers
    /\ ccPc = "idle"
    /\ ccPc' = "wait_selector"
    /\ ccIdx' = 1
    /\ ccIssued' = <<>>
    /\ ccLog' = <<>>
    /\ ccResult' = "unset"
    /\ ccExc' = None

\* await self.page.wait_for_selector('[data-testid="login-email-next-button"]', ...)
CC_WaitSelector ==
    /\ UNCHANGED ccOthers
    /\ ccPc = "wait_selector"
    /\ \/ ccPc' = "button_info" /\ UNCHANGED <<ccResult, ccExc>>
       \/ CC_Raise
    /\ UNCHANGED <<ccIdx, ccIssued, ccLog>>

\* button_info = await self.page.evaluate(...)
CC_ButtonInfo ==
    /\ UNCHANGED ccOthers
    /\ ccPc = "button_info"
    /\ \/ ccPc' = "strategy" /\ UNCHANGED <<ccResult, ccExc>>
       \/ CC_Raise
    /\ UNCHANGED <<ccIdx, ccIssued, ccLog>>

\* await strategy(): the mechanism is issued; if it raises, the handler at
\* line 223 logs it and the loop goes on to the next mechanism.
CC_Strategy ==
    /\ UNCHANGED ccOthers
    /\ ccPc = "strategy"
    /\ ccIdx <= Len(CC_Mechanisms)
    /\ ccIssued' = Append(ccIssued, CC_Mechanisms[ccIdx])
    /\ \/ /\ ccPc' = "check"
          /\ UNCHANGED <<ccIdx, ccLog>>
       \/ /\ ccLog' = Append(ccLog, [mech |-> CC_Mechanisms[ccIdx], outcome |-> "raised"])
          /\ ccIdx' = ccIdx + 1
          /\ ccPc' = "strategy"
    /\ UNCHANGED <<ccResult, ccExc>>

\* await asyncio.sleep(1); has_password = await self.page.evaluate(...);
\* return when the password field is there, otherwise the next mechanism.
CC_Check ==
    /\ UNCHANGED ccOthers
    /\ ccPc = "check"
    /\ \E seen \in CC_CheckOutcomes :
        /\ ccLog' = Append(ccLog, [mech |-> CC_Mechanisms[ccIdx], outcome |-> seen])
        /\ IF CC_MovedToPassword(seen)
           THEN /\ ccPc' = "done"
                /\ ccResult' = "returned"
                /\ UNCHANGED <<ccIdx, ccExc>>
           ELSE /\ ccPc' = "strategy"
                /\ ccIdx' = ccIdx + 1
                /\ UNCHANGED <<ccResult, ccExc>>
    /\ UNCHANGED ccIssued

\* raise InteractionError("All click strategies failed"), re-raised by the
\* outer handler.
CC_AllFailed ==
    /\ UNCHANGED ccOthers
    /\ ccPc = "strategy"
    /\ ccIdx > Len(CC_Mechanisms)
    /\ CC_Raise
    /\ UNCHANGED <<ccIdx, ccIssued, ccLog>>

InitCC ==
    /\ ccPc = "idle"
    /\ ccIdx = 1
    /\ ccIssued = <<>>
    /\ ccLog = <<>>
    /\ ccResult = "unset"
    /\ ccExc = None

(***************************************************************************)
(* Tool handlers of server.py on the module-level browser_controller       *)
(***************************************************************************)

\* Tool invocations that can be in progress together.
NumTasks == 2
Tasks == 1..NumTasks

\* The driver calls click_element (server.py:139) makes through
\* BrowserController.click_element, in order.
SV_ClickElementCalls ==
    <<"wait_for_selector", "scroll_into_view_if_needed", "wait_for_timeout", "click">>

\* The driver calls google_search (server.py:188) makes up to the first smart
\* selector query: BrowserController.navigate, then the search input.
SV_GoogleSearchCalls ==
    <<"set_viewport_size", "set_extra_http_headers", "goto", "wait_for_load_state",
      "wait_for_timeout", "wait_for_selector", "fill", "press", "wait_for_timeout",
      "evaluate">>

SV_Calls(tool) ==
    IF tool = "click_element" THEN SV_ClickElementCalls ELSE SV_GoogleSearchCalls

\* A failed call whose error the handler swallows and goes on: the result of
\* self.wait_for_element(selector) in click_element is not looked at.
SV_FailureIgnored(tool, call) == tool = "click_element" /\ call = "wait_for_selector"

\* A task is between its first driver call and its end.
SV_Running(t) == svTool[t] # None /\ svResult[t] = "unset"

\* launch_browser: browser_controller.page is set.
SV_Launch ==
    /\ UNCHANGED svOthers
    /\ ~svLaunched
    /\ svLaunched' = TRUE
    /\ UNCHANGED <<svTool, svPc, svInFlight, svResult>>

\* A tool call arrives and its handler starts; nothing in server.py makes it
\* wait for a handler that is suspended at an await.  Without a page the
\* handler raises ValueError before any driver call.
SV_Invoke(t) ==
    /\ UNCHANGED svOthers
    /\ svTool[t] = None
    /\ \E tool \in {"click_element", "google_search"} :
        svTool' = [svTool EXCEPT ![t] = tool]
    /\ svPc' = [svPc EXCEPT ![t] = 1]
    /\ svResult' = [svResult EXCEPT ![t] = IF svLaunched THEN "unset" ELSE "INVALID_PARAMS"]
    /\ UNCHANGED <<svLaunched, svInFlight>>

\* The handler runs up to its next await of a driver call and suspends there.
SV_Issue(t) ==
    /\ UNCHANGED svOthers
    /\ SV_Running(t)
    /\ ~svInFlight[t]
    /\ svInFlight' = [svInFlight EXCEPT ![t] = TRUE]
    /\ UNCHANGED <<svLaunched, svTool, svPc, svResult>>

\* The driver call completes and the handler resumes: with its result, or
\* with an error that ends the handler unless the handler swallows it.
SV_Complete(t) ==
    /\ UNCHANGED svOthers
    /\ svInFlight[t]
    /\ svInFlight' = [svInFlight EXCEPT ![t] = FALSE]
    /\ \E ok \in BOOLEAN :
        LET calls == SV_Calls(svTool[t]) IN
        IF ok \/ SV_FailureIgnored(svTool[t], calls[svPc[t]])
        THEN /\ svPc' = [svPc EXCEPT ![t] = @ + 1]
             /\ svResult' = [svResult EXCEPT ![t] =
                                IF svPc[t] = Len(calls) THEN "ok" ELSE "unset"]
        ELSE /\ svResult' = [svResult EXCEPT ![t] = "failed"]
             /\ UNCHANGED svPc
    /\ UNCHANGED <<svLaunched, svTool>>

InitSV ==
    /\ svLaunched = FALSE
    /\ svTool = [t \in Tasks |-> None]
    /\ svPc = [t \in Tasks |-> 1]
    /\ svInFlight = [t \in Tasks |-> FALSE]
    /\ svResult = [t \in Tasks |-> "unset"]

(***************************************************************************)
(* Controller sessions: BrowserController.launch and SquareController      *)
(* (controllers/browser_controller.py, controllers/square_controller_new.py)*)
(***************************************************************************)

\* Sessions that run side by side, each with its own BrowserController and
\* SquareController object.
NumSessions == 2
Sessions == 1..NumSessions

\* Path(os.path.expanduser("~/.goose/debug"))
MS_HomeDebugDir == "~/.goose/debug"

\* self.debug_dir as __init__ sets it: the same path in every controller.
MS_DebugDir(s) == MS_HomeDebugDir

\* The screenshots login saves, in order, and the one of its except block.
MS_Screenshots ==
    <<"01_initial_page", "02_email_entered", "03_after_continue",
      "04_password_entered", "05_after_signin">>
MS_ErrorScreenshot == "error"
MS_ArtifactNames == {MS_Screenshots[i] : i \in 1..Len(MS_Screenshots)} \cup {MS_ErrorScreenshot}

\* path = self.debug_dir / f"{name}.png"
MS_Path(s, name) == <<msDir[s], name>>

\* The file system after page.screenshot(path=...) of session s: the file at
\* the path holds the picture of that session's page.
MS_WriteFile(files, s, name) ==
    [p \in DOMAIN files \cup {MS_Path(s, name)} |->
        IF p = MS_Path(s, name)
        THEN [writer |-> s, page |-> msPage[s], step |-> msPageActs[s]]
        ELSE files[p]]

\* BrowserController.launch: the driver hands out a new browser and a new
\* page; on an error launch returns False and the page stays None.
MS_Launch(s) ==
    /\ UNCHANGED msOthers
    /\ msPc[s] = "new"
    /\ \/ /\ msBrowser' = [msBrowser EXCEPT ![s] = msHandles + 1]
          /\ msPage' = [msPage EXCEPT ![s] = msHandles + 2]
          /\ msHandles' = msHandles + 2
          /\ msPc' = [msPc EXCEPT ![s] = "launched"]
       \/ /\ msPc' = [msPc EXCEPT ![s] = "done"]
          /\ UNCHANGED <<msBrowser, msPage, msHandles>>
    /\ UNCHANGED <<msDir, msPageActs, msFiles>>

\* SquareController(page): debug_dir is set and created (exist_ok=True).
MS_Construct(s) ==
    /\ UNCHANGED msOthers
    /\ msPc[s] = "launched"
    /\ msDir' = [msDir EXCEPT ![s] = MS_DebugDir(s)]
    /\ msPc' = [msPc EXCEPT ![s] = "step1"]
    /\ UNCHANGED <<msBrowser, msPage, msHandles, msPageActs, msFiles>>

MS_StepPc(k) == IF k > Len(MS_Screenshots) THEN "verify" ELSE "step" \o ToString(k)

\* One stage of login: the driver actions on self.page up to the next
\* save_debug_screenshot, then the screenshot; any error leads to the except
\* block.
MS_LoginStage(s) ==
    /\ UNCHANGED msOthers
    /\ \E k \in 1..Len(MS_Screenshots) :
        /\ msPc[s] = MS_StepPc(k)
        /\ msPageActs' = [msPageActs EXCEPT ![s] = @ + 1]
        /\ \/ /\ msFiles' = MS_WriteFile(msFiles, s, MS_Screenshots[k])
              /\ msPc' = [msPc EXCEPT ![s] = MS_StepPc(k + 1)]
           \/ /\ msPc' = [msPc EXCEPT ![s] = "error"]
              /\ UNCHANGED msFiles
    /\ UNCHANGED <<msBrowser, msPage, msHandles, msDir>>

\* return await self.verify_login_success(), or its error.
MS_Verify(s) ==
    /\ UNCHANGED msOthers
    /\ msPc[s] = "verify"
    /\ \/ msPc' = [msPc EXCEPT ![s] = "done"]
       \/ msPc' = [msPc EXCEPT ![s] = "error"]
    /\ UNCHANGED <<msBrowser, msPage, msHandles, msDir, msPageActs, msFiles>>

\* except Exception: await self.save_debug_screenshot("error"); return False
\* (a failing screenshot leaves login with its error).
MS_SaveError(s) ==
    /\ UNCHANGED msOthers
    /\ msPc[s] = "error"
    /\ \/ msFiles' = MS_WriteFile(msFiles, s, MS_ErrorScreenshot)
       \/ UNCHANGED msFiles
    /\ msPc' = [msPc EXCEPT ![s] = "done"]
    /\ UNCHANGED <<msBrowser, msPage, msHandles, msDir, msPageActs>>

InitMS ==
    /\ msPc = [s \in Sessions |-> "new"]
    /\ msBrowser = [s \in Sessions |-> 0]
    /\ msPage = [s \in Sessions |-> 0]
    /\ msHandles = 0
    /\ msDir = [s \in Sessions |-> None]
    /\ msPageActs = [s \in Sessions |-> 0]
    /\ msFiles = <<>>

(***************************************************************************)
(* WebComponentHandler.find_button_by_text                                 *)
(* (browser_automation_current_backup/core/web_component_handler.py)       *)
(***************************************************************************)

\* text.lower(): "sign in", "continue", or any other text.
FB_Texts == {"sign in", "continue", "other"}

\* len(SQUARE_SELECTORS['sign_in_button']), len(SQUARE_SELECTORS['continue_button'])
\* and len(generic_selectors).
FB_SignInSelectors == 4
FB_ContinueSelectors == 2
FB_GenericSelectors == 3

\* Timeouts in ms explored: multiples of 12, so that timeout/len(...) is whole.
MaxTimeoutUnits == 2
FB_Timeouts == {12 * m : m \in 1..MaxTimeoutUnits}

\* The number of selectors of the special handling of a text (none for other
\* texts).
FB_SpecialCount(text) ==
    IF text = "sign in" THEN FB_SignInSelectors
    ELSE IF text = "continue" THEN FB_ContinueSelectors
    ELSE 0

\* The number of selectors of the loop the call is in.
FB_PhaseCount == IF fbPhase = "special" THEN FB_SpecialCount(fbText) ELSE FB_GenericSelectors

\* timeout=timeout/len(...) of the loop the call is in.
FB_Share == fbTimeout \div FB_PhaseCount

FB_Call ==
    /\ UNCHANGED fbOthers
    /\ fbPc = "idle"
    /\ fePc = "idle"
    /\ \E text \in FB_Texts, timeout \in FB_Timeouts :
        /\ fbText' = text
        /\ fbTimeout' = timeout
        /\ fbPhase' = IF FB_SpecialCount(text) > 0 THEN "special" ELSE "generic"
    /\ fbPc' = "wait"
    /\ fbIdx' = 1
    /\ fbWaited' = 0
    /\ fbResult' = None

\* element = await self.page.wait_for_selector(selector, timeout=..., state='visible'):
\* the element (at once or just before the timeout), a timeout after the whole
\* share, or another driver error; except Exception goes on to the next
\* selector.
FB_WaitSelector ==
    /\ UNCHANGED fbOthers
    /\ fbPc = "wait"
    /\ fbIdx <= FB_PhaseCount
    /\ \/ /\ \E w \in {0, FB_Share} : fbWaited' = fbWaited + w
          /\ fbPc' = "done"
          /\ fbResult' = <<fbPhase, fbIdx>>
          /\ UNCHANGED fbIdx
       \/ /\ \E w \in {0, FB_Share} : fbWaited' = fbWaited + w
          /\ fbIdx' = fbIdx + 1
          /\ UNCHANGED <<fbPc, fbResult>>
    /\ UNCHANGED <<fbText, fbTimeout, fbPhase>>

\* The special loop found nothing: control falls through to the generic
\* selectors.
FB_FallThrough ==
    /\ UNCHANGED fbOthers
    /\ fbPc = "wait"
    /\ fbPhase = "special"
    /\ fbIdx > FB_PhaseCount
    /\ fbPhase' = "generic"
    /\ fbIdx' = 1
    /\ UNCHANGED <<fbPc, fbText, fbTimeout, fbWaited, fbResult>>

\* return None
FB_ReturnNone ==
    /\ UNCHANGED fbOthers
    /\ fbPc = "wait"
    /\ fbPhase = "generic"
    /\ fbIdx > FB_PhaseCount
    /\ fbPc' = "done"
    /\ fbResult' = None
    /\ UNCHANGED <<fbText, fbTimeout, fbPhase, fbIdx, fbWaited>>

InitFB ==
    /\ fbPc = "idle"
    /\ fbText = None
    /\ fbTimeout = 0
    /\ fbPhase = None
    /\ fbIdx = 1
    /\ fbWaited = 0
    /\ fbResult = None

(***************************************************************************)
(* WebComponentHandler.wait_for_components (core/web_component_handler.py) *)
(***************************************************************************)

\* Custom element tags of the page.
WC_Tags == {"market-button", "market-input-text"}

\* Timeouts explored, in ticks of the driver's clock; the timeout is positive
\* (0 turns the driver's timeout off).
MaxWaitTimeout == 2

\* Only the driver's TimeoutError is wrapped.
WC_WrapsTimeoutOnly(e) == e = "TimeoutError"

\* except Exception as e: raise WebComponentError(...)
WC_Wraps(e) == e \in {"TimeoutError", "Error"}

\* The function handed to page.wait_for_function: customElements.get(name)
\* !== undefined for every name, joined by &&.
WC_AllDefined(components, registered) == components \subseteq registered

\* With no names the joined checks are empty and the script
\* "return typeof customElements !== 'undefined' && ;" does not parse.
WC_ScriptParses(components) == components # {}

\* The wait ends with a driver exception e.
WC_Raise(e, cause) ==
    /\ wcPc' = "done"
    /\ wcResult' = "raised"
    /\ wcExc' = IF WC_Wraps(e) THEN "WebComponentError" ELSE e
    /\ wcCause' = cause

WC_Call ==
    /\ UNCHANGED wcOthers
    /\ wcPc = "idle"
    /\ \E components \in SUBSET WC_Tags, timeout \in 1..MaxWaitTimeout :
        /\ wcComponents' = components
        /\ wcTimeout' = timeout
    /\ wcPc' = "waiting"
    /\ wcElapsed' = 0
    /\ UNCHANGED <<wcRegistered, wcResult, wcExc, wcCause>>

\* The page registers a custom element (customElements.define in a page
\* script); a registration is never undone.
WC_Define ==
    /\ UNCHANGED wcOthers
    /\ wcPc \in {"idle", "waiting"}
    /\ \E tag \in WC_Tags \ wcRegistered : wcRegistered' = wcRegistered \cup {tag}
    /\ UNCHANGED <<wcPc, wcComponents, wcTimeout, wcElapsed, wcResult, wcExc, wcCause>>

\* The driver's clock advances while the function has not held.
WC_Tick ==
    /\ UNCHANGED wcOthers
    /\ wcPc = "waiting"
    /\ wcElapsed < wcTimeout
    /\ wcElapsed' = wcElapsed + 1
    /\ UNCHANGED <<wcPc, wcComponents, wcTimeout, wcRegistered, wcResult, wcExc, wcCause>>

\* page.wait_for_function sees the function hold and returns.
WC_Satisfied ==
    /\ UNCHANGED wcOthers
    /\ wcPc = "waiting"
    /\ WC_ScriptParses(wcComponents)
    /\ WC_AllDefined(wcComponents, wcRegistered)
    /\ wcPc' = "done"
    /\ wcResult' = "returned"
    /\ UNCHANGED <<wcComponents, wcTimeout, wcRegistered, wcElapsed, wcExc, wcCause>>

\* The timeout elapses without the function having held: TimeoutError.
WC_TimedOut ==
    /\ UNCHANGED wcOthers
    /\ wcPc = "waiting"
    /\ WC_ScriptParses(wcComponents)
    /\ wcElapsed = wcTimeout
    /\ ~WC_AllDefined(wcComponents, wcRegistered)
    /\ WC_Raise("TimeoutError", "timeout")
    /\ UNCHANGED <<wcComponents, wcTimeout, wcRegistered, wcElapsed>>

\* page.wait_for_function fails for another reason: the script does not
\* parse, the page was closed or navigated away.
WC_DriverError ==
    /\ UNCHANGED wcOthers
    /\ wcPc = "waiting"
    /\ WC_Raise("Error", IF WC_ScriptParses(wcComponents) THEN "driver" ELSE "script")
    /\ UNCHANGED <<wcComponents, wcTimeout, wcRegistered, wcElapsed>>

InitWC ==
    /\ wcPc = "idle"
    /\ wcComponents = {}
    /\ wcTimeout = 1
    /\ wcRegistered = {}
    /\ wcElapsed = 0
    /\ wcResult = "unset"
    /\ wcExc = None
    /\ wcCause = None

(***************************************************************************)
(* WebComponentUtils.fill_shadow_input and wait_for_web_component          *)
(* (browser_automation_current_backup/utils/web_components.py)             *)
(*                                                                         *)
(* Both build the text of a script with an f-string and hand it to         *)
(* page.evaluate, which evaluates the text as an expression and calls the  *)
(* result only when it is a function.  The text is                         *)
(*     (args) => { ... }, "<selector>", "<value>")                         *)
(* so what the call gives depends on how the interpolated strings read as  *)
(* script text.  Strings are sequences of characters.                      *)
(***************************************************************************)

\* Characters of the strings explored: a letter, a non-ASCII letter, the
\* double quote, the backslash, and the two characters that can make the
\* text after an interpolated quote an expression.
FS_Chars == {"a", "é", "\"", "\\", "(", ","}

MaxValueLen == 3

\* The values explored: every string of at most MaxValueLen characters.
FS_Values == UNION {[1..n -> FS_Chars] : n \in 0..MaxValueLen}

\* The selectors explored: a tag name, and a tag name with an attribute test
\* whose value holds a quote, a comma and a parenthesis.
FS_Selectors == {<<"a">>, <<"a", "\"", ",", "(", "\"", "a">>}

FS_Token(t, v) == [t |-> t, v |-> v]
FS_LexError == <<FS_Token("error", <<>>)>>

\* The tokens of script text from position i on: string literals with their
\* escapes resolved, parentheses and commas; a letter or a backslash outside
\* a string literal and an unterminated literal do not evaluate.
RECURSIVE FS_Lex(_, _, _, _)
FS_Lex(text, i, inString, cur) ==
    IF i > Len(text) THEN (IF inString THEN FS_LexError ELSE <<>>)
    ELSE LET c == text[i] IN
         IF inString
         THEN IF c = "\\"
              THEN IF i = Len(text) THEN FS_LexError
                   ELSE FS_Lex(text, i + 2, TRUE, Append(cur, text[i + 1]))
              ELSE IF c = "\""
              THEN <<FS_Token("str", cur)>> \o FS_Lex(text, i + 1, FALSE, <<>>)
              ELSE FS_Lex(text, i + 1, TRUE, Append(cur, c))
         ELSE IF c = "\"" THEN FS_Lex(text, i + 1, TRUE, <<>>)
              ELSE IF c = " " THEN FS_Lex(text, i + 1, FALSE, <<>>)
              ELSE IF c \in {"(", ")", ","}
              THEN <<FS_Token(c, <<>>)>> \o FS_Lex(text, i + 1, FALSE, <<>>)
              ELSE FS_LexError

FS_ParseError == [ok |-> FALSE, val |-> FS_Token("error", <<>>), rest |-> <<>>]

\* Evaluation of a comma expression of string literals, the function and
\* parenthesised expressions: the value of the last operand.  A value
\* followed by "(" is a call of something that is no function, and two
\* values in a row do not parse.
RECURSIVE FS_ParseExpression(_), FS_ParsePrimary(_)
FS_ParsePrimary(toks) ==
    IF toks = <<>> THEN FS_ParseError
    ELSE IF Head(toks).t \in {"str", "fn"}
    THEN [ok |-> TRUE, val |-> Head(toks), rest |-> Tail(toks)]
    ELSE IF Head(toks).t = "("
    THEN LET r == FS_ParseExpression(Tail(toks)) IN
         IF r.ok /\ r.rest # <<>> /\ Head(r.rest).t = ")"
         THEN [ok |-> TRUE, val |-> r.val, rest |-> Tail(r.rest)]
         ELSE FS_ParseError
    ELSE FS_ParseError

FS_ParseExpression(toks) ==
    LET r == FS_ParsePrimary(toks) IN
    IF ~r.ok THEN FS_ParseError
    ELSE IF r.rest = <<>> \/ Head(r.rest).t = ")" THEN r
    ELSE IF Head(r.rest).t = "," THEN FS_ParseExpression(Tail(r.rest))
    ELSE FS_ParseError

\* What a call can give: False, a raised error, or a string.
FS_False == [kind |-> "False", v |-> <<>>]
FS_Error == [kind |-> "Error", v |-> <<>>]
FS_Unset == [kind |-> "unset", v |-> <<>>]

\* page.evaluate of the script text that follows the arrow function: "Error"
\* when the text does not evaluate (or evaluates to the function, which is
\* then called without its component), otherwise the string it evaluates to.
FS_Evaluate(text) ==
    LET toks == <<FS_Token("fn", <<>>)>> \o FS_Lex(text, 1, FALSE, <<>>)
        r == FS_ParseExpression(toks)
    IN  IF r.ok /\ r.rest = <<>> /\ r.val.t = "str"
        THEN [kind |-> "value", v |-> r.val.v]
        ELSE FS_Error

\* , "{selector}")  of wait_for_web_component
FS_DefinedScript(selector) == <<",", " ", "\"">> \o selector \o <<"\"", ")">>

\* , "{input_selector}", "{value}")  of fill_shadow_input
FS_FillScript(selector, value) ==
    <<",", " ", "\"">> \o selector \o <<"\"", ",", " ", "\"">> \o value \o <<"\"", ")">>

\* Python truth of a result: a non-empty string.
FS_Truthy(r) == r.kind = "value" /\ r.v # <<>>

\* The inner input after page.evaluate of the fill script: the arrow
\* function that sets input.value is an operand of the comma expression and
\* is never called.
FS_InputAfter(input, value) == input

\* return False
FS_ReturnFalse ==
    /\ fsPc' = "done"
    /\ fsResult' = FS_False

FS_Call ==
    /\ UNCHANGED fsOthers
    /\ fsPc = "idle"
    /\ \E component \in FS_Selectors, selector \in FS_Selectors, value \in FS_Values :
        /\ fsComponent' = component
        /\ fsSelector' = selector
        /\ fsValue' = value
    /\ fsInput' = <<>>
    /\ fsPc' = "wait_selector"
    /\ fsResult' = FS_Unset

\* wait_for_web_component: element = await self.page.wait_for_selector(...);
\* a timeout or another error gives None and fill_shadow_input returns False.
FS_WaitSelector ==
    /\ UNCHANGED fsOthers
    /\ fsPc = "wait_selector"
    /\ \/ fsPc' = "is_defined" /\ UNCHANGED fsResult
       \/ FS_ReturnFalse
    /\ UNCHANGED <<fsComponent, fsSelector, fsValue, fsInput>>

\* wait_for_web_component: is_defined = await self.page.evaluate(...); an
\* error or a falsy value gives None.
FS_IsDefined ==
    /\ UNCHANGED fsOthers
    /\ fsPc = "is_defined"
    /\ \/ /\ FS_Truthy(FS_Evaluate(FS_DefinedScript(fsComponent)))
          /\ fsPc' = "fill"
          /\ UNCHANGED fsResult
       \/ /\ ~FS_Truthy(FS_Evaluate(FS_DefinedScript(fsComponent)))
          /\ FS_ReturnFalse
       \/ FS_ReturnFalse
    /\ UNCHANGED <<fsComponent, fsSelector, fsValue, fsInput>>

\* success = await self.page.evaluate(...); return success; an error gives
\* False.
FS_Fill ==
    /\ UNCHANGED fsOthers
    /\ fsPc = "fill"
    /\ \/ LET r == FS_Evaluate(FS_FillScript(fsSelector, fsValue)) IN
          /\ fsResult' = IF r = FS_Error THEN FS_False ELSE r
          /\ fsInput' = IF r = FS_Error THEN fsInput ELSE FS_InputAfter(fsInput, fsValue)
          /\ fsPc' = "done"
       \/ FS_ReturnFalse /\ UNCHANGED fsInput
    /\ UNCHANGED <<fsComponent, fsSelector, fsValue>>

InitFS ==
    /\ fsPc = "idle"
    /\ fsComponent = <<>>
    /\ fsSelector = <<>>
    /\ fsValue = <<>>
    /\ fsInput = <<>>
    /\ fsResult = FS_Unset

(***************************************************************************)
(* BrowserController.navigate: controllers/browser_controller.py ("main")  *)
(* and browser_automation_current_backup/controllers/browser_controller.py *)
(* ("backup")                                                              *)
(***************************************************************************)

NV_Variants == {"main", "backup"}

\* URLs: a document address, a query string and a fragment.
NV_Urls == [page : {"https://x/page", "https://x/other"}, query : {"a=1", "a=2"},
            hash : {"", "top"}]

\* The URL once hash and query are stripped.
NV_Stripped(url) == url.page

\* The driver calls of navigate, in order.
NV_Steps(variant) ==
    IF variant = "main"
    THEN <<"set_viewport_size", "set_extra_http_headers", "goto", "wait_for_load_state",
           "wait_for_timeout">>
    ELSE <<"goto", "wait_for_load_state">>

\* What page.goto resolves to: a response with a 2xx status, a response with
\* another status, or None (a navigation within the same document).
NV_Responses == {"2xx", "non2xx", "none"}

\* if not response or not response.ok: return False -- in the backup only;
\* the main controller does not look at what goto returns.
NV_ResponseRejected(variant, response) ==
    variant = "backup" /\ response \in {"non2xx", "none"}

NV_Return(b) ==
    /\ nvPc' = "done"
    /\ nvResult' = b

NV_Call ==
    /\ UNCHANGED nvOthers
    /\ nvPc = "idle"
    /\ \E variant \in NV_Variants, page \in BOOLEAN, cur \in NV_Urls, tgt \in NV_Urls :
        /\ nvVariant' = variant
        /\ nvHasPage' = page
        /\ nvCurrent' = cur
        /\ nvTarget' = tgt
    /\ nvPc' = "ensure_page"
    /\ nvCalls' = <<>>
    /\ nvResponse' = None
    /\ nvRaisedAt' = None
    /\ nvResult' = None

\* if not self._page: raise ValueError (caught by except Exception) in main,
\* return False in the backup.
NV_EnsurePage ==
    /\ UNCHANGED nvOthers
    /\ nvPc = "ensure_page"
    /\ IF nvHasPage
       THEN nvPc' = "step" /\ UNCHANGED nvResult
       ELSE NV_Return(FALSE)
    /\ UNCHANGED <<nvVariant, nvHasPage, nvCurrent, nvTarget, nvCalls, nvResponse, nvRaisedAt>>

\* A driver call other than goto returns.
NV_DriverCall ==
    /\ UNCHANGED nvOthers
    /\ nvPc = "step"
    /\ Len(nvCalls) < Len(NV_Steps(nvVariant))
    /\ LET call == NV_Steps(nvVariant)[Len(nvCalls) + 1] IN
        /\ call # "goto"
        /\ nvCalls' = Append(nvCalls, call)
    /\ UNCHANGED <<nvPc, nvVariant, nvHasPage, nvCurrent, nvTarget, nvResponse, nvRaisedAt,
                   nvResult>>

\* await self._page.goto(url, wait_until=..., timeout=...) returns: the page
\* is at url.
NV_Goto ==
    /\ UNCHANGED nvOthers
    /\ nvPc = "step"
    /\ Len(nvCalls) < Len(NV_Steps(nvVariant))
    /\ NV_Steps(nvVariant)[Len(nvCalls) + 1] = "goto"
    /\ nvCalls' = Append(nvCalls, "goto")
    /\ nvCurrent' = nvTarget
    /\ \E response \in NV_Responses :
        /\ nvResponse' = response
        /\ IF NV_ResponseRejected(nvVariant, response)
           THEN NV_Return(FALSE)
           ELSE UNCHANGED <<nvPc, nvResult>>
    /\ UNCHANGED <<nvVariant, nvHasPage, nvTarget, nvRaisedAt>>

\* A driver call raises (TimeoutError of goto or of the load-state wait, or
\* another driver error): except Exception returns False.
NV_DriverRaises ==
    /\ UNCHANGED nvOthers
    /\ nvPc = "step"
    /\ Len(nvCalls) < Len(NV_Steps(nvVariant))
    /\ LET call == NV_Steps(nvVariant)[Len(nvCalls) + 1] IN
        /\ nvCalls' = Append(nvCalls, call)
        /\ nvRaisedAt' = call
    /\ NV_Return(FALSE)
    /\ UNCHANGED <<nvVariant, nvHasPage, nvCurrent, nvTarget, nvResponse>>

\* return True
NV_ReturnTrue ==
    /\ UNCHANGED nvOthers
    /\ nvPc = "step"
    /\ Len(nvCalls) = Len(NV_Steps(nvVariant))
    /\ NV_Return(TRUE)
    /\ UNCHANGED <<nvVariant, nvHasPage, nvCurrent, nvTarget, nvCalls, nvResponse, nvRaisedAt>>

InitNV ==
    /\ nvPc = "idle"
    /\ nvVariant = "main"
    /\ nvHasPage = FALSE
    /\ nvCurrent = [page |-> "https://x/page", query |-> "a=1", hash |-> ""]
    /\ nvTarget = [page |-> "https://x/page", query |-> "a=1", hash |-> ""]
    /\ nvCalls = <<>>
    /\ nvResponse = None
    /\ nvRaisedAt = None
    /\ nvResult = None

(***************************************************************************)
(* Tool handlers and their parameters (server.py of browser_automation     *)
(* and of browser_automation_current_backup) on the module-level           *)
(* browser_controller, and direct calls of the controller's methods        *)
(***************************************************************************)

TL_NoCall == [tool |-> None, params |-> None, running |-> FALSE]
TL_NoResult == [kind |-> None, code |-> None, msg |-> None]

\* raise make_error(code, message) / raise McpError(ErrorData(code, message)).
TL_Error(code, msg) == [kind |-> "error", code |-> code, msg |-> msg]

\* return {"success": success, "message": ...}.
TL_Success(success) ==
    [kind |-> "return", code |-> None, msg |-> IF success THEN "success" ELSE "failed"]

\* The page-dependent tools each server registers.
TL_Tools(variant) ==
    IF variant = "main"
    THEN {"navigate_to", "type_text", "click_element", "inspect_page", "google_search"}
    ELSE {"square_login"}

\* The params mapping of a call: complete ("ok"), lacking a required key
\* ("missing"; every field of InspectPageParams has a default), or "malformed":
\* for the dataclasses a key they do not declare, for square_login an email
\* or password that is the empty string.
TL_Params(tool) ==
    IF tool = "inspect_page" THEN {"ok", "malformed"} ELSE {"ok", "missing", "malformed"}

\* The except clauses of a handler. server.py: ValueError is answered with
\* INVALID_PARAMS and str(e), every other exception with INTERNAL_ERROR.
\* Backup server.py: the one clause, except Exception, answers everything,
\* the McpError raised inside the try included, with INTERNAL_ERROR and a
\* message that contains str(e).
TL_Answer(variant, exc, msg) ==
    IF variant = "main" /\ exc = "ValueError"
    THEN TL_Error("INVALID_PARAMS", msg)
    ELSE TL_Error("INTERNAL_ERROR", msg)

\* One of the two packages is imported: browser_controller = BrowserController().
TL_Serve ==
    /\ UNCHANGED tlOthers
    /\ tlVariant = None
    /\ \E variant \in {"main", "backup"} : tlVariant' = variant
    /\ UNCHANGED <<tlPage, tlPc, tlCall, tlResult, tlDriver, tlCtl>>

\* launch_browser: controller.launch sets _page when every step succeeded and
\* returns False otherwise; the backup handler turns False into an error.
TL_LaunchBrowser ==
    /\ UNCHANGED tlOthers
    /\ tlVariant # None
    /\ tlPc = "idle"
    /\ tlCall' = [tool |-> "launch_browser", params |-> "ok", running |-> tlPage = "open"]
    /\ \E ok \in BOOLEAN :
        /\ tlPage' = IF ok THEN "open" ELSE tlPage
        /\ tlResult' = IF ok \/ tlVariant = "main"
                       THEN TL_Success(ok)
                       ELSE TL_Answer(tlVariant, "McpError", "Failed to launch browser")
    /\ tlDriver' = FALSE
    /\ UNCHANGED <<tlVariant, tlPc, tlCtl>>

\* close_browser. server.py returns at once without a page; its controller
\* closes the page and sets _page = None, or re-raises when a close fails.
\* The backup controller closes context, browser and driver, logs a failure,
\* and leaves _page referring to the page it closed.
TL_CloseBrowser ==
    /\ UNCHANGED tlOthers
    /\ tlVariant # None
    /\ tlPc = "idle"
    /\ tlCall' = [tool |-> "close_browser", params |-> "ok", running |-> tlPage = "open"]
    /\ \E ok \in BOOLEAN :
        IF tlVariant = "main"
        THEN IF tlPage = "None"
             THEN tlResult' = TL_Success(TRUE) /\ UNCHANGED tlPage
             ELSE /\ tlPage' = IF ok THEN "None" ELSE tlPage
                  /\ tlResult' = IF ok THEN TL_Success(TRUE)
                                 ELSE TL_Answer(tlVariant, "Error", "Failed to close browser")
        ELSE /\ tlPage' = IF ok /\ tlPage # "None" THEN "closed" ELSE tlPage
             /\ tlResult' = TL_Success(TRUE)
    /\ tlDriver' = FALSE
    /\ UNCHANGED <<tlVariant, tlPc, tlCtl>>

\* A page-dependent tool is called with a params mapping.
TL_Invoke ==
    /\ UNCHANGED tlOthers
    /\ tlVariant # None
    /\ tlPc = "idle"
    /\ \E tool \in TL_Tools(tlVariant) : \E params \in TL_Params(tool) :
        tlCall' = [tool |-> tool, params |-> params, running |-> tlPage = "open"]
    /\ tlPc' = "check"
    /\ tlResult' = TL_NoResult
    /\ tlDriver' = FALSE
    /\ UNCHANGED <<tlVariant, tlPage, tlCtl>>

\* The head of the handler's try block: the parameters are read, then
\* browser_controller.page is tested. XParams(**params) raises TypeError for a
\* missing or undeclared key; square_login raises McpError(INVALID_PARAMS)
\* when email or password is falsy. A page that was closed but is still
\* referenced is truthy.
TL_Check ==
    /\ UNCHANGED tlOthers
    /\ tlPc = "check"
    /\ IF tlCall.params # "ok"
       THEN /\ tlResult' = IF tlVariant = "main"
                           THEN TL_Answer(tlVariant, "TypeError", "TypeError")
                           ELSE TL_Answer(tlVariant, "McpError", "Email and password are required")
            /\ tlPc' = "idle"
       ELSE IF tlPage = "None"
       THEN /\ tlResult' = TL_Answer(tlVariant,
                                     IF tlVariant = "main" THEN "ValueError" ELSE "McpError",
                                     "Browser not launched")
            /\ tlPc' = "idle"
       ELSE /\ tlPc' = "controller"
            /\ UNCHANGED tlResult
    /\ UNCHANGED <<tlVariant, tlPage, tlCall, tlDriver, tlCtl>>

\* The rest of the handler: the controller works on the page through the
\* driver, which fails on a closed page. navigate, type_text, click_element
\* and inspect_page catch every exception and the handler returns their
\* result; google_search raises Exception when a step fails, square_login
\* raises McpError(INTERNAL_ERROR) when login returns False.
TL_Controller ==
    /\ UNCHANGED tlOthers
    /\ tlPc = "controller"
    /\ tlDriver' = TRUE
    /\ \E ok \in BOOLEAN :
        /\ tlPage = "closed" => ~ok
        /\ tlResult' = IF ok \/ tlCall.tool \notin {"google_search", "square_login"}
                       THEN TL_Success(ok)
                       ELSE TL_Answer(tlVariant,
                                      IF tlVariant = "main" THEN "Exception" ELSE "McpError",
                                      IF tlVariant = "main" THEN "Search failed" ELSE "Login failed")
    /\ tlPc' = "idle"
    /\ UNCHANGED <<tlVariant, tlPage, tlCall, tlCtl>>

\* BrowserController.navigate, type_text or click_element is called directly.
\* Each body is one try block: without a page, raise ValueError("Browser not
\* launched") happens inside it and except Exception returns False; with a
\* page the driver calls succeed (True) or raise (False).
TL_Direct ==
    /\ UNCHANGED tlOthers
    /\ tlVariant = "main"
    /\ tlPc = "idle"
    /\ \E method \in {"navigate", "type_text", "click_element"}, ok \in BOOLEAN :
        LET raised == IF tlPage = "None" THEN "ValueError"
                      ELSE IF ok THEN None ELSE "Error"
        IN  tlCtl' = [method |-> method, page |-> tlPage,
                      outcome |-> IF raised = None THEN "True" ELSE "False"]
    /\ UNCHANGED <<tlVariant, tlPage, tlPc, tlCall, tlResult, tlDriver>>

InitTL ==
    /\ tlVariant = None
    /\ tlPage = "None"
    /\ tlPc = "idle"
    /\ tlCall = TL_NoCall
    /\ tlResult = TL_NoResult
    /\ tlDriver = FALSE
    /\ tlCtl = [method |-> None, page |-> None, outcome |-> None]

(***************************************************************************)
(* SquareController.login and its debug artifacts                          *)
(* (controllers/square_controller_new.py, controllers/square_controller.py)*)
(***************************************************************************)

\* The artifacts login saves, in order, each after the login step it records:
\* square_controller_new.py saves five screenshots, square_controller.py also
\* the JSON dumps of login and find_continue_button.
LG_Artifacts(variant) ==
    IF variant = "new"
    THEN MS_Screenshots
    ELSE <<"01_initial_page", "initial_components", "02_email_entered",
           "clickable_elements", "web_components", "button", "continue_button",
           "03_after_continue", "04_password_entered", "05_after_signin">>

\* Steps of square_controller.py that end login with return False themselves:
\* no continue button was found (before "button"), or the third click
\* strategy failed (before "03_after_continue").
LG_StepReturnsFalse(variant, k) == variant = "old" /\ k \in {6, 8}

LG_Call ==
    /\ UNCHANGED lgOthers
    /\ lgPc = "idle"
    /\ \E variant \in {"new", "old"} : lgVariant' = variant
    /\ lgPc' = "step"
    /\ lgK' = 1
    /\ lgStepFailed' = FALSE
    /\ lgWriteFailed' = FALSE
    /\ lgVerified' = None
    /\ lgResult' = None

\* The login step before artifact lgK runs inside login's try block: it
\* succeeds, raises, or returns False where the code has such a return.
LG_Step ==
    /\ UNCHANGED lgOthers
    /\ lgPc = "step"
    /\ \/ lgPc' = "save" /\ UNCHANGED <<lgStepFailed, lgResult>>
       \/ lgPc' = "except" /\ lgStepFailed' = TRUE /\ UNCHANGED lgResult
       \/ /\ LG_StepReturnsFalse(lgVariant, lgK)
          /\ lgPc' = "done"
          /\ lgStepFailed' = TRUE
          /\ lgResult' = "False"
    /\ UNCHANGED <<lgVariant, lgK, lgWriteFailed, lgVerified>>

\* save_debug_screenshot / save_debug_info, awaited inside the same try block:
\* the file is written, or page.screenshot / open / json.dump raises. After
\* the last artifact of square_controller.py ("06_login_success" or
\* "06_login_failed") login returns what the verification found.
LG_Save ==
    /\ UNCHANGED lgOthers
    /\ lgPc = "save"
    /\ \/ /\ UNCHANGED lgWriteFailed
          /\ IF lgK > Len(LG_Artifacts(lgVariant))
             THEN lgPc' = "done" /\ lgResult' = lgVerified /\ UNCHANGED lgK
             ELSE /\ lgPc' = IF lgK = Len(LG_Artifacts(lgVariant)) THEN "verify" ELSE "step"
                  /\ lgK' = lgK + 1
                  /\ UNCHANGED lgResult
       \/ /\ lgWriteFailed' = TRUE
          /\ lgPc' = "except"
          /\ UNCHANGED <<lgK, lgResult>>
    /\ UNCHANGED <<lgVariant, lgStepFailed, lgVerified>>

\* The wait for the dashboard. verify_login_success catches every exception
\* and login returns its result; square_controller.py catches TimeoutError
\* only and saves one more screenshot before it returns.
LG_Verify ==
    /\ UNCHANGED lgOthers
    /\ lgPc = "verify"
    /\ \E found \in {"ok", "TimeoutError", "Error"} :
        IF lgVariant = "old" /\ found = "Error"
        THEN /\ lgPc' = "except"
             /\ lgStepFailed' = TRUE
             /\ UNCHANGED <<lgVerified, lgResult>>
        ELSE /\ lgVerified' = IF found = "ok" THEN "True" ELSE "False"
             /\ IF lgVariant = "new"
                THEN lgPc' = "done" /\ lgResult' = lgVerified'
                ELSE lgPc' = "save" /\ UNCHANGED lgResult
             /\ UNCHANGED lgStepFailed
    /\ UNCHANGED <<lgVariant, lgK, lgWriteFailed>>

\* except Exception: save_debug_screenshot("error") is awaited in the handler,
\* outside any try block, then return False.
LG_Except ==
    /\ UNCHANGED lgOthers
    /\ lgPc = "except"
    /\ lgPc' = "done"
    /\ \/ lgResult' = "False" /\ UNCHANGED lgWriteFailed
       \/ lgResult' = "raised" /\ lgWriteFailed' = TRUE
    /\ UNCHANGED <<lgVariant, lgK, lgStepFailed, lgVerified>>

InitLG ==
    /\ lgPc = "idle"
    /\ lgVariant = "new"
    /\ lgK = 1
    /\ lgStepFailed = FALSE
    /\ lgWriteFailed = FALSE
    /\ lgVerified = None
    /\ lgResult = None

(***************************************************************************)
(* ElementLocator.is_element_present (core/element_locator.py) and         *)
(* SquareController.handle_cookie_consent (square_controller_new.py),      *)
(* which call find_element                                                 *)
(***************************************************************************)

\* State that neither find_element nor its two callers touch.
ipRest == <<rbVars, wrVars, ceVars, eiVars, ssVars, ccVars, svVars, msVars, fbVars, wcVars,
            fsVars, nvVars, tlVars, lgVars, weVars, crVars, inVars, bcVars, lsVars, rqVars>>

\* An except clause written for the driver's TimeoutError.
IP_CatchesTimeoutError(e) == e = "TimeoutError"

\* except ElementNotFoundError at element_locator.py:195.
IP_Catches(e) == e = "ElementNotFoundError"

\* The options handle_cookie_consent passes: {'id': <element id>}.
HC_Options == {[k \in OptionKeys |-> IF k = "id" THEN "set" ELSE "absent"]}

\* is_element_present awaits self.find_element(options, timeout) with one of
\* the given options mappings.
IP_Enter(opts) ==
    /\ ipPc = "idle"
    /\ fePc = "idle"
    /\ fbPc = "idle"
    /\ ipPc' = "finding"
    /\ \E o \in opts : feOptions' = o
    /\ fePc' = "loop"
    /\ feIdx' = 1
    /\ feErrors' = <<>>
    /\ feTried' = <<>>
    /\ UNCHANGED <<feOutcome, feReturned, feExc, feDetails, ipResult>>

\* is_element_present(options, timeout) is called.
IP_Call ==
    /\ UNCHANGED ipRest
    /\ hcPc = "idle"
    /\ IP_Enter(Options)
    /\ UNCHANGED <<hcPc, hcButton, hcClicked, hcWaited, hcRaised>>

\* find_element has ended: return True, or False from the except clause; an
\* exception the clause does not name goes on to the caller.
IP_Return ==
    /\ UNCHANGED ipOthers
    /\ ipPc = "finding"
    /\ fePc = "done"
    /\ ipPc' = "done"
    /\ ipResult' = IF feOutcome = "returned" THEN "True"
                   ELSE IF IP_Catches(feExc) THEN "False"
                   ELSE "raised"
    /\ UNCHANGED <<hcPc, hcButton, hcClicked, hcWaited, hcRaised>>

\* handle_cookie_consent is called on a page whose accept button is visible
\* or absent; its first statement is is_element_present({'id': ...}).
HC_Call ==
    /\ UNCHANGED ipRest
    /\ hcPc = "idle"
    /\ hcPc' = "present"
    /\ \E button \in {"visible", "absent"} : hcButton' = button
    /\ IP_Enter(HC_Options)
    /\ UNCHANGED <<hcClicked, hcWaited, hcRaised>>

\* is_element_present has returned. False: nothing more is done. True:
\* find_element once more, button.click(), wait_for_element(banner, 'hidden'),
\* each of which may raise into except Exception, which logs a warning. An
\* exception out of is_element_present is caught by the same clause.
HC_Resume ==
    /\ UNCHANGED ipOthers
    /\ hcPc = "present"
    /\ ipPc = "done"
    /\ hcPc' = "done"
    /\ hcRaised' = FALSE    \* except Exception catches whatever the body raised
    /\ IF ipResult = "True"
       THEN \E found \in BOOLEAN, clicked \in BOOLEAN, hidden \in BOOLEAN :
               /\ hcClicked' = (found /\ clicked)
               /\ hcWaited' = (found /\ clicked /\ hidden)
       ELSE UNCHANGED <<hcClicked, hcWaited>>
    /\ UNCHANGED <<ipPc, ipResult, hcButton>>

InitIP ==
    /\ ipPc = "idle"
    /\ ipResult = None
    /\ hcPc = "idle"
    /\ hcButton = "absent"
    /\ hcClicked = FALSE
    /\ hcWaited = FALSE
    /\ hcRaised = FALSE

(***************************************************************************)
(* ElementLocator.wait_for_element (core/element_locator.py), called with  *)
(* options that select one element by one strategy                         *)
(***************************************************************************)

\* The states wait_for_element accepts, and what the element can be on the
\* page: not in the DOM, in the DOM but not visible, visible.
WE_States == {"attached", "detached", "visible", "hidden"}
WE_Element == {"absent", "invisible", "visible"}

\* The driver's meaning of the four states.
WE_InState(element, state) ==
    CASE state = "attached" -> element # "absent"
      [] state = "detached" -> element = "absent"
      [] state = "visible" -> element = "visible"
      [] state = "hidden" -> element # "visible"

\* Timeouts explored, in ticks of the driver's clock.
MaxStateTimeout == 2

\* The state the wait in progress is waiting for: find_element always waits
\* for 'visible', the second wait for the requested state.
WE_Awaited == IF wePc = "find" THEN "visible" ELSE weState

WE_Call ==
    /\ UNCHANGED weOthers
    /\ wePc = "idle"
    /\ \E state \in WE_States, timeout \in 1..MaxStateTimeout, element \in WE_Element :
        /\ weState' = state
        /\ weTimeout' = timeout
        /\ weElement' = element
        /\ weReached' = WE_InState(element, state)
    /\ wePc' = "find"
    /\ weElapsed' = 0
    /\ weTotal' = 0
    /\ weResult' = None

\* Time passes while a wait is unsatisfied, and the page may change.
WE_Tick ==
    /\ UNCHANGED weOthers
    /\ wePc \in {"find", "wait"}
    /\ ~WE_InState(weElement, WE_Awaited)
    /\ weElapsed < weTimeout
    /\ weElapsed' = weElapsed + 1
    /\ weTotal' = weTotal + 1
    /\ \E element \in WE_Element :
        /\ weElement' = element
        /\ weReached' = (weReached \/ (WE_InState(element, weState) /\ weTotal' <= weTimeout))
    /\ UNCHANGED <<wePc, weState, weTimeout, weResult>>

\* find_element: locator.wait_for(state='visible', timeout) returns and
\* find_element returns the locator; then element.wait_for(state, timeout).
WE_Found ==
    /\ UNCHANGED weOthers
    /\ wePc = "find"
    /\ WE_InState(weElement, "visible")
    /\ wePc' = "wait"
    /\ weElapsed' = 0
    /\ UNCHANGED <<weState, weTimeout, weElement, weTotal, weReached, weResult>>

\* element.wait_for(state, timeout) returns: return element.
WE_Reached ==
    /\ UNCHANGED weOthers
    /\ wePc = "wait"
    /\ WE_InState(weElement, weState)
    /\ wePc' = "done"
    /\ weResult' = "locator"
    /\ UNCHANGED <<weState, weTimeout, weElement, weElapsed, weTotal, weReached>>

\* The wait in progress times out. In find_element the only strategy has
\* failed and ElementNotFoundError("Element not found with any strategy")
\* passes through wait_for_element; the TimeoutError of the second wait is
\* caught and raised as ElementNotFoundError("Timeout waiting for element state").
WE_TimedOut ==
    /\ UNCHANGED weOthers
    /\ wePc \in {"find", "wait"}
    /\ ~WE_InState(weElement, WE_Awaited)
    /\ weElapsed = weTimeout
    /\ weResult' = IF wePc = "find" THEN "Element not found with any strategy"
                   ELSE "Timeout waiting for element state"
    /\ wePc' = "done"
    /\ UNCHANGED <<weState, weTimeout, weElement, weElapsed, weTotal, weReached>>

InitWE ==
    /\ wePc = "idle"
    /\ weState = "visible"
    /\ weTimeout = 1
    /\ weElement = "absent"
    /\ weElapsed = 0
    /\ weTotal = 0
    /\ weReached = FALSE
    /\ weResult = None

(***************************************************************************)
(* BrowserController.click_result_by_text                                  *)
(* (controllers/browser_controller.py), which calls SmartSelector          *)
(***************************************************************************)

\* click_result_by_text(text) on a launched browser: the page test passes and
\* smart_selector.find_element(...) is awaited, before the try block.
CR_Call ==
    /\ UNCHANGED crOthers
    /\ crPc = "idle"
    /\ ssPc = "idle"
    /\ crPc' = "finding"
    /\ UNCHANGED <<crClick, crResult>>

\* find_element has ended. An exception out of it is not inside any try
\* block and leaves click_result_by_text; None gives return False; with a
\* locator the scroll and the click run inside try / except Exception.
CR_Resume ==
    /\ UNCHANGED crOthers
    /\ crPc = "finding"
    /\ ssPc = "done"
    /\ crPc' = "done"
    /\ IF ssRaised # None
       THEN crResult' = "raised" /\ UNCHANGED crClick
       ELSE IF ssResult = 0
       THEN crResult' = "False" /\ UNCHANGED crClick
       ELSE \E click \in {"ok", "Error"} :
               /\ crClick' = click
               /\ crResult' = IF click = "ok" THEN "True" ELSE "False"

InitCR ==
    /\ crPc = "idle"
    /\ crClick = None
    /\ crResult = None

(***************************************************************************)
(* ElementInspector.inspect_page and its page script analyzeElement        *)
(* (utils/inspector.py)                                                    *)
(***************************************************************************)

\* DOM trees explored: at most MaxNodes elements in any shape, two tag
\* names. IN_Trees(n) holds the trees of exactly n elements, IN_Forests(m)
\* the lists of trees with m elements altogether (element.children).
MaxNodes == 4
IN_Tags == {"div", "a"}

RECURSIVE IN_Trees(_), IN_Forests(_)
IN_Forests(m) ==
    IF m = 0
    THEN {<<>>}
    ELSE UNION {{<<t>> \o f : t \in IN_Trees(k), f \in IN_Forests(m - k)} : k \in 1..m}

IN_Trees(n) == {[tag |-> t, children |-> cs] : t \in IN_Tags, cs \in IN_Forests(n - 1)}

\* "elementTypes": element_types or ['*'].
IN_ElementTypes(elementTypes) == IF elementTypes = {} THEN {"*"} ELSE elementTypes

\* The element budget is tested after the element is counted.
IN_LimitReachedLate(elementCount, depth, params) ==
    elementCount > params.maxElements \/ depth >= params.maxDepth

\* if (elementCount >= maxElements || depth >= maxDepth) return null;
IN_LimitReached(elementCount, depth, params) ==
    elementCount >= params.maxElements \/ depth >= params.maxDepth

\* analyzeElement(element, depth) with the counter elementCount passed in and
\* out: an element is identified by its path of child indices from the root,
\* so depth = Len(path). The result holds the paths of the infos returned
\* (the info and, under info.children, those of its children); null is the
\* empty set with the counter unchanged.
RECURSIVE IN_AnalyzeElement(_, _, _, _), IN_AnalyzeChildren(_, _, _, _, _)
IN_AnalyzeElement(element, path, elementCount, params) ==
    IF IN_LimitReached(elementCount, Len(path), params)
    THEN [reported |-> {}, elementCount |-> elementCount]
    ELSE IF "*" \notin params.elementTypes /\ element.tag \notin params.elementTypes
    THEN [reported |-> {}, elementCount |-> elementCount]
    ELSE LET children == IN_AnalyzeChildren(element.children, 1, path, elementCount + 1, params)
         IN  [reported |-> {path} \cup children.reported,
              elementCount |-> children.elementCount]

\* for (const child of element.children) analyzeElement(child, depth + 1)
IN_AnalyzeChildren(children, i, path, elementCount, params) ==
    IF i > Len(children)
    THEN [reported |-> {}, elementCount |-> elementCount]
    ELSE LET first == IN_AnalyzeElement(children[i], Append(path, i), elementCount, params)
             rest == IN_AnalyzeChildren(children, i + 1, path, first.elementCount, params)
         IN  [reported |-> first.reported \cup rest.reported,
              elementCount |-> rest.elementCount]

\* inspect_page(selector, max_elements, element_types, attributes, max_depth)
\* on a page where selector matches the root of a tree: the script returns
\* elements: analyzeElement(root) and totalElements: elementCount.
IN_InspectPage ==
    /\ UNCHANGED inOthers
    /\ inPc = "idle"
    /\ inPc' = "done"
    /\ \E root \in UNION {IN_Trees(n) : n \in 1..MaxNodes},
          element_types \in SUBSET IN_Tags,
          max_depth \in 0..MaxNodes, max_elements \in 0..MaxNodes :
        /\ inRoot' = root
        /\ inParams' = [elementTypes |-> IN_ElementTypes(element_types),
                        maxDepth |-> max_depth, maxElements |-> max_elements]
        /\ inResult' = IN_AnalyzeElement(root, <<>>, 0, inParams')

InitIN ==
    /\ inPc = "idle"
    /\ inRoot = [tag |-> "div", children |-> <<>>]
    /\ inParams = [elementTypes |-> {"*"}, maxDepth |-> 1, maxElements |-> 1]
    /\ inResult = [reported |-> {}, elementCount |-> 0]

(***************************************************************************)
(* BrowserController.launch and close (controllers/browser_controller.py)  *)
(* and the tools launch_browser and close_browser (server.py): the three   *)
(* references of the controller and the driver objects they were given     *)
(***************************************************************************)

\* Launches of one controller that the model follows.
MaxLaunches == 3

BC_Kinds == {"playwright", "browser", "page"}

\* The objects the n-th launch starts carry the number n; a reference that
\* is None holds no number.
BC_Unset == [k \in BC_Kinds |-> 0]
BC_IsNone(ref) == ref = 0

\* launch: async_playwright().start(), chromium.launch(...), new_page().
LaunchOrderPageFirst == <<"page", "browser", "playwright">>
LaunchOrder == <<"playwright", "browser", "page">>

\* close: self._page, self._browser, self._playwright.
CloseOrderReversed == <<"playwright", "browser", "page">>
CloseOrder == <<"page", "browser", "playwright">>

\* What ends with a driver object: a page closes alone, a browser takes its
\* pages with it, a stopped Playwright instance takes its browsers and pages.
BC_EndedWith(kind) ==
    CASE kind = "page" -> {"page"}
      [] kind = "browser" -> {"browser", "page"}
      [] kind = "playwright" -> BC_Kinds

\* The tool launch_browser: BrowserLaunchParams(**params) raises for an
\* undeclared key, and the handler raises an McpError; otherwise
\* controller.launch begins.
BC_LaunchCall ==
    /\ UNCHANGED bcOthers
    /\ bcPc = "idle"
    /\ bcLaunches < MaxLaunches
    /\ \E valid \in BOOLEAN :
          IF valid
          THEN /\ bcPc' = "launch"
               /\ bcStep' = 1
               /\ bcLaunches' = bcLaunches + 1
               /\ bcResult' = "running"
          ELSE /\ bcResult' = "mcp_error"
               /\ UNCHANGED <<bcPc, bcStep, bcLaunches>>
    /\ bcVia' = "tool"
    /\ bcCalls' = <<>>
    /\ bcEntry' = bcRef
    /\ UNCHANGED <<bcRef, bcLive>>

\* One awaited step of launch: the object is started and assigned to the
\* controller's attribute, or the step raises and except Exception returns
\* False with the attributes as they are.
BC_LaunchStep ==
    /\ UNCHANGED bcOthers
    /\ bcPc = "launch"
    /\ LET kind == LaunchOrder[bcStep]
       IN  \E ok \in BOOLEAN :
              IF ok
              THEN /\ bcRef' = [bcRef EXCEPT ![kind] = bcLaunches]
                   /\ bcLive' = [bcLive EXCEPT ![kind] = @ \cup {bcLaunches}]
                   /\ IF bcStep = Len(LaunchOrder)
                      THEN bcPc' = "idle" /\ bcResult' = "True" /\ UNCHANGED bcStep
                      ELSE bcStep' = bcStep + 1 /\ UNCHANGED <<bcPc, bcResult>>
              ELSE /\ bcPc' = "idle"
                   /\ bcResult' = "False"
                   /\ UNCHANGED <<bcStep, bcRef, bcLive>>
    /\ UNCHANGED <<bcVia, bcLaunches, bcCalls, bcEntry>>

\* The tool close_browser: without a page it answers "No browser instance
\* running" and does not call close.
BC_CloseBrowserCall ==
    /\ UNCHANGED bcOthers
    /\ bcPc = "idle"
    /\ IF BC_IsNone(bcRef["page"])
       THEN bcResult' = "no_instance" /\ UNCHANGED <<bcPc, bcStep>>
       ELSE bcPc' = "close" /\ bcStep' = 1 /\ bcResult' = "running"
    /\ bcVia' = "tool"
    /\ bcCalls' = <<>>
    /\ bcEntry' = bcRef
    /\ UNCHANGED <<bcRef, bcLive, bcLaunches>>

\* controller.close() called directly.
BC_CloseCall ==
    /\ UNCHANGED bcOthers
    /\ bcPc = "idle"
    /\ bcPc' = "close"
    /\ bcStep' = 1
    /\ bcResult' = "running"
    /\ bcVia' = "direct"
    /\ bcCalls' = <<>>
    /\ bcEntry' = bcRef
    /\ UNCHANGED <<bcRef, bcLive, bcLaunches>>

\* One if block of close: a reference that is None is passed over; otherwise
\* the object is closed and the reference set to None, or the driver call
\* raises and close re-raises with the reference unchanged (the tool turns
\* the exception into an McpError).
BC_CloseStep ==
    /\ UNCHANGED bcOthers
    /\ bcPc = "close"
    /\ LET kind == CloseOrder[bcStep]
           last == bcStep = Len(CloseOrder)
       IN  IF BC_IsNone(bcRef[kind])
           THEN /\ IF last
                   THEN bcPc' = "idle" /\ bcResult' = "closed" /\ UNCHANGED bcStep
                   ELSE bcStep' = bcStep + 1 /\ UNCHANGED <<bcPc, bcResult>>
                /\ UNCHANGED <<bcRef, bcLive, bcCalls>>
           ELSE \E ok \in BOOLEAN :
                   /\ bcCalls' = Append(bcCalls, [kind |-> kind, id |-> bcRef[kind]])
                   /\ IF ok
                      THEN /\ bcRef' = [bcRef EXCEPT ![kind] = 0]
                           /\ bcLive' = [k \in BC_Kinds |->
                                            IF k \in BC_EndedWith(kind)
                                            THEN bcLive[k] \ {bcRef[kind]}
                                            ELSE bcLive[k]]
                           /\ IF last
                              THEN bcPc' = "idle" /\ bcResult' = "closed" /\ UNCHANGED bcStep
                              ELSE bcStep' = bcStep + 1 /\ UNCHANGED <<bcPc, bcResult>>
                      ELSE /\ bcPc' = "idle"
                           /\ bcResult' = IF bcVia = "tool" THEN "mcp_error" ELSE "raised"
                           /\ UNCHANGED <<bcStep, bcRef, bcLive>>
    /\ UNCHANGED <<bcVia, bcLaunches, bcEntry>>

InitBC ==
    /\ bcPc = "idle"
    /\ bcStep = 1
    /\ bcVia = "direct"
    /\ bcRef = BC_Unset
    /\ bcLive = [k \in BC_Kinds |-> {}]
    /\ bcLaunches = 0
    /\ bcCalls = <<>>
    /\ bcEntry = BC_Unset
    /\ bcResult = "none"

(***************************************************************************)
(* SquareController.login step by step (square_controller_new.py), with    *)
(* click_continue run as the machine modelled above                        *)
(***************************************************************************)

\* The steps of login in the order of its body.
LS_Steps ==
    <<"navigate", "cookie_consent", "wait_components", "fill_email",
      "click_continue", "fill_password", "click_sign_in", "verify">>

\* The steps login follows with save_debug_screenshot.
LS_Recorded ==
    {"navigate", "fill_email", "click_continue", "fill_password", "click_sign_in"}

\* handle_cookie_consent catches every exception and logs a warning; the
\* other steps raise into login's except block.
LS_SwallowsAll(step) == TRUE
LS_Swallows(step) == step = "cookie_consent"

\* The variables of click_continue, which login drives.
lsRest == <<feVars, rbVars, wrVars, ceVars, eiVars, ssVars, svVars, msVars, fbVars, wcVars,
            fsVars, nvVars, tlVars, lgVars, ipVars, weVars, crVars, inVars, bcVars, rqVars>>

\* What follows a step that has ended without an exception reaching login.
LS_Advance(step) ==
    IF step \in LS_Recorded
    THEN lsPc' = "shot" /\ UNCHANGED lsIdx
    ELSE lsPc' = "step" /\ lsIdx' = lsIdx + 1

LS_Call ==
    /\ UNCHANGED <<lsRest, ccVars>>
    /\ lsPc = "idle"
    /\ lsPc' = "step"
    /\ lsIdx' = 1
    /\ lsLog' = <<>>
    /\ lsResult' = None

\* One awaited step other than click_continue. The dashboard wait of
\* verify_login_success ends login with True or, on any exception, False.
LS_Step ==
    /\ UNCHANGED <<lsRest, ccVars>>
    /\ lsPc = "step"
    /\ LET step == LS_Steps[lsIdx]
       IN  /\ step # "click_continue"
           /\ \E outcome \in {"ok", "failed"} :
                 /\ lsLog' = Append(lsLog, [step |-> step, outcome |-> outcome])
                 /\ IF step = "verify"
                    THEN /\ lsPc' = "done"
                         /\ lsResult' = IF outcome = "ok" THEN "True" ELSE "False"
                         /\ UNCHANGED lsIdx
                    ELSE IF outcome = "ok" \/ LS_Swallows(step)
                    THEN LS_Advance(step) /\ UNCHANGED lsResult
                    ELSE lsPc' = "except" /\ UNCHANGED <<lsIdx, lsResult>>

\* await self.click_continue(): the call begins.
LS_ClickContinue ==
    /\ UNCHANGED lsRest
    /\ lsPc = "step"
    /\ LS_Steps[lsIdx] = "click_continue"
    /\ lsPc' = "continue"
    /\ ccPc' = "wait_selector"
    /\ ccIdx' = 1
    /\ ccIssued' = <<>>
    /\ ccLog' = <<>>
    /\ ccResult' = "unset"
    /\ ccExc' = None
    /\ UNCHANGED <<lsIdx, lsLog, lsResult>>

\* click_continue has returned or raised InteractionError.
LS_Continued ==
    /\ UNCHANGED <<lsRest, ccVars>>
    /\ lsPc = "continue"
    /\ ccPc = "done"
    /\ LET step == LS_Steps[lsIdx]
           outcome == IF ccResult = "returned" THEN "ok" ELSE "failed"
       IN  /\ lsLog' = Append(lsLog, [step |-> step, outcome |-> outcome])
           /\ IF outcome = "ok" \/ LS_Swallows(step)
              THEN LS_Advance(step)
              ELSE lsPc' = "except" /\ UNCHANGED lsIdx
    /\ UNCHANGED lsResult

\* await self.save_debug_screenshot(...) after a step: page.screenshot
\* returns, or raises into login's except block.
LS_Shot ==
    /\ UNCHANGED <<lsRest, ccVars>>
    /\ lsPc = "shot"
    /\ \/ lsPc' = "step" /\ lsIdx' = lsIdx + 1
       \/ lsPc' = "except" /\ UNCHANGED lsIdx
    /\ UNCHANGED <<lsLog, lsResult>>

\* except Exception: save_debug_screenshot("error"), then return False; the
\* screenshot is outside any try block.
LS_Except ==
    /\ UNCHANGED <<lsRest, ccVars>>
    /\ lsPc = "except"
    /\ lsPc' = "done"
    /\ \E written \in BOOLEAN : lsResult' = IF written THEN "False" ELSE "raised"
    /\ UNCHANGED <<lsIdx, lsLog>>

InitLS ==
    /\ lsPc = "idle"
    /\ lsIdx = 1
    /\ lsLog = <<>>
    /\ lsResult = None

(***************************************************************************)
(* The request loop of browser_automation_current_backup/main.py: main     *)
(* reads one line at a time from stdin, handle_request answers it          *)
(***************************************************************************)

\* Lines the loop reads before stdin ends.
MaxRequests == 2

\* "error": {"code": -32601, ...} and "error": {"code": -32000, ...}
RQ_MethodNotFound == -32601
RQ_ServerError == -32000

\* A method name as the text before and after the end of "notifications/".
RQ_Methods ==
    {<<"notifications/", "shutdown">>, <<"notifications/", "initialized">>,
     <<"", "initialize">>, <<"", "tools/list">>, <<"", "launch_browser">>,
     <<"", "navigate_to">>, <<"", "square_login">>, <<"", "notifications">>,
     <<"", "close_browser">>}

\* A line of stdin, the n-th of the run: text that is no JSON, a JSON value
\* that is no object, or an object whose "method" is a string or not and
\* whose "id" is n or missing (0).
RQ_Lines(n) ==
    [n : {n}, kind : {"bad_json", "not_object"}, str : {FALSE},
     method : {<<"", "">>}, id : {0}]
    \cup [n : {n}, kind : {"object"}, str : {FALSE}, method : {<<"", "">>}, id : {0, n}]
    \cup [n : {n}, kind : {"object"}, str : {TRUE}, method : RQ_Methods, id : {0, n}]

RQ_NoLine == [n |-> 0, kind |-> "none", str |-> FALSE, method |-> <<"", "">>, id |-> 0]

\* if method.startswith("notifications/")
RQ_IsNotificationNever(method) == FALSE
RQ_IsNotification(method) == method[1] = "notifications/"

\* handle_request up to its first await. request.get of a value that is no
\* object raises inside the try block, whose handler then reads request_id
\* before any assignment: that error leaves handle_request. A method that
\* is no string raises at startswith, after request_id was assigned.
RQ_HandleRequest(req, page) ==
    IF req.kind = "not_object" THEN [kind |-> "escaped", code |-> 0]
    ELSE IF ~req.str THEN [kind |-> "error", code |-> RQ_ServerError]
    ELSE IF RQ_IsNotification(req.method) THEN [kind |-> "none", code |-> 0]
    ELSE IF req.method[2] \in {"initialize", "tools/list"} THEN [kind |-> "result", code |-> 0]
    ELSE IF req.method[2] = "launch_browser" THEN [kind |-> "await", code |-> 0]
    ELSE IF req.method[2] \in {"navigate_to", "square_login"}
    THEN IF page
         THEN [kind |-> "await", code |-> 0]
         ELSE [kind |-> "error", code |-> RQ_ServerError]
    ELSE [kind |-> "error", code |-> RQ_MethodNotFound]

\* print(json.dumps(response)): the response carries request_id.
RQ_Response(req, kind, code) == [for |-> req.n, id |-> req.id, kind |-> kind, code |-> code]

\* while not extension._shutting_down
RQ_LoopTest(flag) == IF flag THEN "cleanup" ELSE "read"

\* One pass of the loop up to the first await inside handle_request:
\* readline, json.loads, handle_request, print. An empty read ends the loop;
\* text that is no JSON is passed over; an exception out of handle_request
\* is answered by main with id None and code -32000.
RQ_Read ==
    /\ UNCHANGED rqOthers
    /\ rqPc = "read"
    /\ \/ /\ rqPc' = "cleanup"
          /\ UNCHANGED <<rqShuttingDown, rqCur, rqLog, rqOut>>
       \/ /\ Len(rqLog) < MaxRequests
          /\ \E req \in RQ_Lines(Len(rqLog) + 1) :
                /\ rqLog' = Append(rqLog, req)
                /\ IF req.kind = "bad_json"
                   THEN /\ rqPc' = RQ_LoopTest(rqShuttingDown)
                        /\ UNCHANGED <<rqShuttingDown, rqCur, rqOut>>
                   ELSE LET r == RQ_HandleRequest(req, rqPage)
                        IN  /\ rqShuttingDown' =
                                  (rqShuttingDown \/
                                     (r.kind = "none" /\ req.method[2] = "shutdown"))
                            /\ rqOut' =
                                  CASE r.kind = "escaped" ->
                                         Append(rqOut, [for |-> req.n, id |-> 0,
                                                        kind |-> "error",
                                                        code |-> RQ_ServerError])
                                    [] r.kind \in {"result", "error"} ->
                                         Append(rqOut, RQ_Response(req, r.kind, r.code))
                                    [] OTHER -> rqOut
                            /\ IF r.kind = "await"
                               THEN rqPc' = "handling" /\ rqCur' = req
                               ELSE /\ rqPc' = RQ_LoopTest(rqShuttingDown')
                                    /\ UNCHANGED rqCur
    /\ UNCHANGED rqPage

\* What the awaited tool call can give: ensure_browser and square_login catch
\* their errors and return a bool; params.get of params that are no object
\* and page.goto raise.
RQ_Outcomes(name) ==
    CASE name = "launch_browser" -> {"True", "False"}
      [] name = "navigate_to" -> {"True", "raised"}
      [] name = "square_login" -> {"True", "False", "raised"}

\* The tool call ends: a bool is answered as a result, an exception by the
\* handler of handle_request with code -32000.
RQ_Handled ==
    /\ UNCHANGED rqOthers
    /\ rqPc = "handling"
    /\ \E outcome \in RQ_Outcomes(rqCur.method[2]) :
          /\ rqPage' = (rqPage \/ (rqCur.method[2] = "launch_browser" /\ outcome = "True"))
          /\ rqOut' = Append(rqOut,
                IF outcome = "raised"
                THEN RQ_Response(rqCur, "error", RQ_ServerError)
                ELSE RQ_Response(rqCur, "result", 0))
    /\ rqPc' = RQ_LoopTest(rqShuttingDown)
    /\ rqCur' = RQ_NoLine
    /\ UNCHANGED <<rqShuttingDown, rqLog>>

\* await extension.cleanup() after the loop: the flag is set, page, browser
\* and Playwright are closed; an error is logged.
RQ_Cleanup ==
    /\ UNCHANGED rqOthers
    /\ rqPc = "cleanup"
    /\ rqPc' = "stopped"
    /\ rqShuttingDown' = TRUE
    /\ \E ok \in BOOLEAN : rqPage' = (rqPage /\ ~ok)
    /\ UNCHANGED <<rqCur, rqLog, rqOut>>

InitRQ ==
    /\ rqPc = "read"
    /\ rqShuttingDown = FALSE
    /\ rqPage = FALSE
    /\ rqCur = RQ_NoLine
    /\ rqLog = <<>>
    /\ rqOut = <<>>

(***************************************************************************)
(* Specifications                                                          *)
(***************************************************************************)

Init == InitFE /\ InitRB /\ InitWR /\ InitCE /\ InitEI /\ InitSS /\ InitCC /\ InitSV /\ InitMS /\ InitFB /\ InitWC /\ InitFS /\ InitNV /\ InitTL /\ InitLG /\ InitIP /\ InitWE /\ InitCR /\ InitIN /\ InitBC /\ InitLS /\ InitRQ

NextFE ==
    \/ FE_Call
    \/ FE_SkipStrategy
    \/ FE_WaitVisible
    \/ FE_RaiseNotFound

NextRB ==
    \/ RB_Call
    \/ RB_Attempt
    \/ RB_Wait
    \/ RB_RaiseLast

\* wait_for_element_ready, called directly or from click_element.
NextCE ==
    \/ WR_Call
    \/ WR_EnsurePage
    \/ WR_IsVisible
    \/ WR_IsEnabled
    \/ WR_Scroll
    \/ WR_Stable
    \/ WR_Overlay
    \/ CE_Call
    \/ CE_EnsurePage
    \/ CE_WaitSelector
    \/ CE_Ready
    \/ CE_AfterReady
    \/ CE_Hover
    \/ CE_Click
    \/ CE_NetworkIdle
    \/ CE_RemoveOverlays

NextEI ==
    \/ EI_Call
    \/ EI_WaitSelector
    \/ EI_InspectState
    \/ EI_ReturnNone

NextSS ==
    \/ SS_Call
    \/ SS_Query
    \/ SS_Score
    \/ SS_Return

NextCC ==
    \/ CC_Call
    \/ CC_WaitSelector
    \/ CC_ButtonInfo
    \/ CC_Strategy
    \/ CC_Check
    \/ CC_AllFailed

NextSV ==
    \/ SV_Launch
    \/ \E t \in Tasks : SV_Invoke(t)
    \/ \E t \in Tasks : SV_Issue(t)
    \/ \E t \in Tasks : SV_Complete(t)

\* The two element-resolution operations.
NextResolve == NextEI \/ NextSS

SpecFE == Init /\ [][NextFE]_vars
SpecEI == Init /\ [][NextEI]_vars
SpecSS == Init /\ [][NextSS]_vars
SpecResolve == Init /\ [][NextResolve]_vars
SpecCC == Init /\ [][NextCC]_vars
SpecSV == Init /\ [][NextSV]_vars
SpecRB == Init /\ [][NextRB]_vars
SpecCE == Init /\ [][NextCE]_vars

\* retry_with_backoff together with click_element: the two retried interactions.
NextRetry == NextRB \/ NextCE
SpecRetry == Init /\ [][NextRetry]_vars

NextMS ==
    \/ \E s \in Sessions : MS_Launch(s)
    \/ \E s \in Sessions : MS_Construct(s)
    \/ \E s \in Sessions : MS_LoginStage(s)
    \/ \E s \in Sessions : MS_Verify(s)
    \/ \E s \in Sessions : MS_SaveError(s)
SpecMS == Init /\ [][NextMS]_vars

NextFB ==
    \/ FB_Call
    \/ FB_WaitSelector
    \/ FB_FallThrough
    \/ FB_ReturnNone
SpecFB == Init /\ [][NextFB]_vars

\* The two element resolutions that take a timeout.
NextTimeout == NextFE \/ NextFB
SpecTimeout == Init /\ [][NextTimeout]_vars

NextWC ==
    \/ WC_Call
    \/ WC_Define
    \/ WC_Tick
    \/ WC_Satisfied
    \/ WC_TimedOut
    \/ WC_DriverError
SpecWC == Init /\ [][NextWC]_vars

NextFS ==
    \/ FS_Call
    \/ FS_WaitSelector
    \/ FS_IsDefined
    \/ FS_Fill
SpecFS == Init /\ [][NextFS]_vars

NextNV ==
    \/ NV_Call
    \/ NV_EnsurePage
    \/ NV_DriverCall
    \/ NV_Goto
    \/ NV_DriverRaises
    \/ NV_ReturnTrue
SpecNV == Init /\ [][NextNV]_vars

NextTL ==
    \/ TL_Serve
    \/ TL_LaunchBrowser
    \/ TL_CloseBrowser
    \/ TL_Invoke
    \/ TL_Check
    \/ TL_Controller
    \/ TL_Direct

SpecTL == Init /\ [][NextTL]_vars

NextLG ==
    \/ LG_Call
    \/ LG_Step
    \/ LG_Save
    \/ LG_Verify
    \/ LG_Except

SpecLG == Init /\ [][NextLG]_vars

NextIP ==
    \/ IP_Call
    \/ IP_Return
    \/ HC_Call
    \/ HC_Resume
    \/ FE_SkipStrategy
    \/ FE_WaitVisible
    \/ FE_RaiseNotFound

SpecIP == Init /\ [][NextIP]_vars

NextWE ==
    \/ WE_Call
    \/ WE_Tick
    \/ WE_Found
    \/ WE_Reached
    \/ WE_TimedOut

SpecWE == Init /\ [][NextWE]_vars

NextCR ==
    \/ CR_Call
    \/ CR_Resume
    \/ SS_Call
    \/ SS_Query
    \/ SS_Score
    \/ SS_Return

SpecCR == Init /\ [][NextCR]_vars

NextIN ==
    \/ IN_InspectPage

SpecIN == Init /\ [][NextIN]_vars

NextBC ==
    \/ BC_LaunchCall
    \/ BC_LaunchStep
    \/ BC_CloseBrowserCall
    \/ BC_CloseCall
    \/ BC_CloseStep

SpecBC == Init /\ [][NextBC]_vars

NextLS ==
    \/ LS_Call
    \/ LS_Step
    \/ LS_ClickContinue
    \/ LS_Continued
    \/ LS_Shot
    \/ LS_Except
    \/ CC_WaitSelector
    \/ CC_ButtonInfo
    \/ CC_Strategy
    \/ CC_Check
    \/ CC_AllFailed

SpecLS == Init /\ [][NextLS]_vars

NextRQ ==
    \/ RQ_Read
    \/ RQ_Handled
    \/ RQ_Cleanup

SpecRQ == Init /\ [][NextRQ]_vars

(***************************************************************************)
(* Properties                                                              *)
(***************************************************************************)

\* The strategies find_element tried and that failed, in order.
FE_Failed == SelectSeq(feTried, LAMBDA t : t.outcome # "ok")

\* C1: find_element ends in one of two ways for every options mapping and
\* every driver failure: it returns the locator of a strategy whose
\* wait-for-visible succeeded, or it raises ElementNotFoundError carrying one
\* failure reason per strategy tried and failed; nothing else escapes.
C1_FindElementTwoOutcomes ==
    fePc = "done" =>
        \/ /\ feOutcome = "returned"
           /\ Len(feTried) >= 1
           /\ feTried[Len(feTried)] = [key |-> feReturned, outcome |-> "ok"]
           /\ feExc = None
        \/ /\ feOutcome = "raised"
           /\ feExc = "ElementNotFoundError"
           /\ Len(feDetails) = Len(FE_Failed)
           /\ \A i \in 1..Len(feDetails) : feDetails[i] = FE_Failed[i].outcome

\* find_element raised ElementNotFoundError after a timeout on one strategy
\* and another driver error on a later one.
C1_Witness ==
    /\ fePc = "done"
    /\ feExc = "ElementNotFoundError"
    /\ Len(feDetails) >= 2
    /\ feDetails[1] = "TimeoutError"
    /\ feDetails[2] = "Error"

\* C3: a retried interaction never makes more attempts than its maximum and
\* ends in a reported failure when all attempts fail: retry_with_backoff calls
\* the action at most max_retries times and then raises the last attempt's
\* error, never another exception, for every max_retries >= 0; click_element
\* makes at most 3 click attempts and then returns False.
C3_RetryBoundedAndReported ==
    /\ rbCalls <= rbMax
    /\ (rbPc = "done" /\ rbOutcome = "raised") =>
            (rbCalls = rbMax /\ rbExc = RB_ActionError(rbCalls))
    /\ ceClicks <= CE_MaxAttempts
    /\ Len(ceLog) <= CE_MaxAttempts
    /\ (cePc = "done" /\ Len(ceLog) = CE_MaxAttempts
            /\ \A i \in 1..Len(ceLog) : ceLog[i].outcome # "ok") => ceResult = "False"

\* C6: when a click attempt failed because the element is no longer attached
\* to the document, the next attempt acts on a freshly re-resolved element,
\* not on the handle obtained before the first attempt.
C6_RetryUsesFreshElement ==
    (/\ cePc \in {"hover", "click"}
     /\ Len(ceLog) >= 1
     /\ ceLog[Len(ceLog)].outcome = "detached")
        => ceHandle > ceLog[Len(ceLog)].handle

\* 2^n for the small n the model uses.
RECURSIVE Pow2(_)
Pow2(n) == IF n = 0 THEN 1 ELSE 2 * Pow2(n - 1)

\* C7 (as claimed): the wait before attempt k+1 is initial_delay * k.
C7_LinearBackoff ==
    \A k \in 1..Len(rbWaits) : rbWaits[k] = rbInit * k

\* C7 (amended): the wait before attempt k+1 is initial_delay * 2^(k-1), for
\* every max_retries and every k with 1 <= k < max_retries; no other wait is
\* inserted.
C7_DoublingBackoff ==
    /\ \A k \in 1..Len(rbWaits) : rbWaits[k] = rbInit * Pow2(k - 1)
    /\ rbPc # "idle" => Len(rbWaits) <= (IF rbMax = 0 THEN 0 ELSE rbMax - 1)

\* Three waits were inserted: the one before attempt 4 is in the trace.
C7_Witness ==
    /\ Len(rbWaits) = 3
    /\ rbInit = 3

\* C8: wait_for_element_ready returns True only if the element is visible and
\* enabled, is stable after scrolling when ensure_visible is set, and the
\* topmost node at its centre is the element or one of its descendants; a
\* covered element is never reported ready.
C8_ReadyOnlyIfAllChecksPass ==
    (wrPc = "done" /\ wrResult = "True") =>
        /\ wrVisible = "yes"
        /\ wrEnabled = "yes"
        /\ wrEnsure =>
            /\ wrStable = "yes"
            /\ wrCalls = <<"is_visible", "is_enabled", "scroll_into_view", "wait_stable",
                           "evaluate_overlay">>
        /\ wrTop \in {"self", "descendant"}

\* The element was reported ready with ensure_visible set and a descendant
\* on top at its centre.
C8_Witness ==
    /\ wrPc = "done"
    /\ wrResult = "True"
    /\ wrEnsure
    /\ wrTop = "descendant"

\* C9: wait_for_element_ready never raises: a missing page or a driver error
\* during a check gives the result False, and no later check runs.
C9_ReadyNeverRaises ==
    /\ wrRaised = None
    /\ wrPc = "done" =>
        /\ wrResult \in {"True", "False"}
        /\ ~wrHasPage => (wrResult = "False" /\ wrCalls = <<>>)
        /\ wrErrorAt # None =>
            /\ wrResult = "False"
            /\ wrErrorAt = "ensure_page" => wrCalls = <<>>
            /\ wrErrorAt # "ensure_page" => wrCalls[Len(wrCalls)] = wrErrorAt

\* A driver error during is_enabled ended the check with False.
C9_Witness ==
    /\ wrPc = "done"
    /\ wrErrorAt = "is_enabled"
    /\ wrResult = "False"
    /\ wrCalls = <<"is_visible", "is_enabled">>

\* C2: no element-resolution operation hands back an element that failed the
\* readiness check: find_interactive_element returns an element only if its
\* inspected state is clickable, and SmartSelector.find_element returns a
\* locator only for a selector whose first matched node passed the
\* visibility check.
C2_OnlyReadyElementsReturned ==
    /\ (eiPc = "done" /\ eiResult # None) => eiState = "clickable"
    /\ (ssPc = "done" /\ ssResult # 0) => ssBestSeen = "visible"

\* The outcome of the k-th mechanism click_continue went through.
CC_Outcome(k) == ccLog[k].outcome

CC_CoordinateIssued == \E i \in 1..Len(ccIssued) : ccIssued[i] = "coordinate"

C10_DriverCallsSerialized ==
    \A t \in Tasks, u \in Tasks :
        t # u =>
            /\ ~(svInFlight[t] /\ svInFlight[u])
            /\ ~(svInFlight[t] /\ SV_Running(u) /\ svPc[u] > 1)

\* C11: two controller sessions running in parallel share no mutable state:
\* each owns its own browser, page and debug-artifact location, so an artifact
\* write in one session never changes a file another session wrote.
C11_SessionsShareNothing ==
    /\ [](\A s \in Sessions, u \in Sessions :
            s # u =>
                /\ (msPage[s] # 0 /\ msPage[u] # 0) =>
                        msPage[s] # msPage[u] /\ msBrowser[s] # msBrowser[u]
                /\ (msDir[s] # None /\ msDir[u] # None) => msDir[s] # msDir[u])
    /\ [][\A p \in DOMAIN msFiles :
            msFiles'[p] # msFiles[p] => msFiles'[p].writer = msFiles[p].writer]_vars

\* The wait find_element has spent when called with the given timeout: every
\* strategy whose wait_for timed out waited for the whole timeout.
FE_Waited(timeout) ==
    timeout * Cardinality({i \in 1..Len(feTried) : feTried[i].outcome = "TimeoutError"})

\* C12: the caller's timeout is a hard cutoff for one element resolution: the
\* waits of all strategies tried in one find_element(options, timeout) call,
\* or of all selectors tried in one find_button_by_text(text, timeout) call,
\* add up to at most timeout.
C12_TimeoutIsHardCutoff ==
    /\ \A timeout \in FB_Timeouts : FE_Waited(timeout) <= timeout
    /\ fbWaited <= fbTimeout

\* Some named tag is not registered.
WC_SomeUnregistered == ~WC_AllDefined(wcComponents, wcRegistered)

C14_FillRoundTrip ==
    (fsPc = "done" /\ FS_Truthy(fsResult)) => fsInput = fsValue

\* C15: when the current URL and the target differ only in their query string
\* or fragment, navigate changes the location client-side and issues no
\* full-navigation driver call (page.goto).
C15_QueryChangeIsClientSide ==
    [][(/\ NV_Stripped(nvCurrent) = NV_Stripped(nvTarget)
        /\ nvCurrent # nvTarget)
            => ~(/\ Len(nvCalls') = Len(nvCalls) + 1
                 /\ nvCalls'[Len(nvCalls')] = "goto")]_vars

\* C16: navigate returns False whenever the navigation response is not a 2xx
\* response, the load times out, or the post-load readiness wait fails; it
\* returns True only when none of these happened.
C16_NavigationFailuresReported ==
    (nvPc = "done" /\ nvResult = TRUE) =>
        /\ nvResponse # "non2xx"
        /\ nvRaisedAt \notin {"goto", "wait_for_load_state"}

\* C17: for every selector and every match count of at least 1,
\* _score_selector returns a value between 0 and 100 inclusive.
C17_ScoreWithinZeroToHundred ==
    \A i \in 1..Len(ssScored) :
        ssScored[i].count >= 1 => (0 <= ssScored[i].score /\ ssScored[i].score <= 100)

\* C18: a selector that matches exactly one element and whose match is
\* visible scores strictly higher than every selector that matches more than
\* one element.
C18_UniqueVisibleOutranksNonUnique ==
    \A i \in 1..Len(ssScored), j \in 1..Len(ssScored) :
        (/\ ssScored[i].count = 1
         /\ ssScored[i].seen = "visible"
         /\ ssScored[j].count > 1) => ssScored[i].score > ssScored[j].score

\* C19: _find_most_reliable_selector never scores a selector that matches
\* zero elements, returns None exactly when no selector could be queried with
\* at least one match, and otherwise returns the selector with the highest
\* score, the earliest-generated selector winning a tie.
C19_BestSelectorReturned ==
    /\ \A i \in 1..Len(ssScored) : ssScored[i].count >= 1
    /\ (ssPc = "done" /\ ssRaised = None) =>
        /\ ssResult = 0 <=> ssScored = <<>>
        /\ ssResult # 0 =>
            \E k \in 1..Len(ssScored) :
                /\ ssScored[k].idx = ssResult
                /\ \A i \in 1..Len(ssScored) :
                    /\ ssScored[i].score <= ssScored[k].score
                    /\ ssScored[i].score = ssScored[k].score => ssScored[i].idx >= ssResult

\* A selector was returned although a later selector had the same score.
C19_Witness ==
    /\ ssPc = "done"
    /\ ssResult # 0
    /\ \E i \in 1..Len(ssScored), j \in 1..Len(ssScored) :
        /\ ssScored[i].idx = ssResult
        /\ ssScored[j].idx > ssResult
        /\ ssScored[j].score = ssScored[i].score

\* The kind of candidate a selector of _build_selectors is.
EI_Kind(sel) ==
    IF sel \in {"role_text", "role_has_text"} THEN "role+text"
    ELSE IF sel = "attributes_xpath" THEN "attributes"
    ELSE IF sel = "role" THEN "role"
    ELSE IF sel \in {"text_exact", "text_regex_i", "aria_label"} THEN "text"
    ELSE IF sel \in {"nth_of_type", "xpath_position"} THEN "position"
    ELSE "near"

\* The specified order of the kinds, most specific first.
EI_Rank(kind) ==
    CASE kind = "role+text" -> 1
      [] kind = "attributes" -> 2
      [] kind = "role" -> 3
      [] kind = "text" -> 4
      [] kind = "position" -> 5
      [] kind = "near" -> 6

\* C20: the candidate list built from a search intent follows the specified
\* specificity order: role+text, then the attribute candidate, then role-only,
\* then text-only (exact before case-insensitive), then tag+position, then
\* proximity.
C20_SelectorsInSpecificityOrder ==
    \A i \in 1..Len(eiSelectors), j \in 1..Len(eiSelectors) :
        i < j =>
            /\ EI_Rank(EI_Kind(eiSelectors[i])) <= EI_Rank(EI_Kind(eiSelectors[j]))
            /\ ~(eiSelectors[i] = "text_regex_i" /\ eiSelectors[j] = "text_exact")

\* C21: for every options mapping with a non-empty test_id, the first selector
\* find_element builds and waits on is the data-testid selector: no text, role,
\* tag, label, placeholder or class selector is waited on before it, and
\* nothing is skipped ahead of it.
C21_TestIdSelectorFirst ==
    (fePc # "idle" /\ Truthy(feOptions["test_id"])) =>
        IF feTried = <<>> THEN feIdx = 1 ELSE feTried[1].key = "test_id"

\* The data-testid selector timed out and find_element went on to the text
\* selector of the same options mapping.
C21_Witness ==
    /\ Truthy(feOptions["test_id"])
    /\ Len(feTried) >= 2
    /\ feTried[1] = [key |-> "test_id", outcome |-> "TimeoutError"]
    /\ feTried[2].key = "text"

\* A call of a page-dependent tool has been answered.
TL_Answered ==
    /\ tlPc = "idle"
    /\ tlCall.tool \in TL_Tools("main") \cup TL_Tools("backup")

\* C22: a tool call whose required parameter is missing or malformed is
\* answered with the INVALID_PARAMS error code (navigate_to without url,
\* square_login without email or password), and a call with complete
\* parameters on a running browser that fails is answered with INTERNAL_ERROR.
C22_ErrorCodeFollowsCause ==
    TL_Answered =>
        /\ tlCall.params # "ok" =>
              tlResult.kind = "error" /\ tlResult.code = "INVALID_PARAMS"
        /\ (tlCall.params = "ok" /\ tlCall.running /\ tlResult.kind = "error") =>
              tlResult.code = "INTERNAL_ERROR"

\* C23: a page-dependent tool invoked with complete parameters while no
\* browser is running, before launch_browser or after close_browser, issues
\* no driver call and is answered with a 'Browser not launched' error.
C23_NoBrowserNoDriverCall ==
    (tlCall.tool \in TL_Tools("main") \cup TL_Tools("backup")
        /\ tlCall.params = "ok" /\ ~tlCall.running) =>
        /\ ~tlDriver
        /\ tlPc = "idle" =>
              tlResult.kind = "error" /\ tlResult.msg = "Browser not launched"

\* C25: BrowserController.navigate, type_text and click_element raise
\* ValueError when they are called before the browser has been launched.
C25_ControllerRaisesBeforeLaunch ==
    (tlCtl.method \in {"navigate", "type_text", "click_element"} /\ tlCtl.page = "None") =>
        tlCtl.outcome = "ValueError"

\* C24: a failure while writing a debug artifact is never fatal to login:
\* login does not raise, and it returns what its login steps determine, False
\* when a step failed and otherwise the outcome of the verification.
C24_ArtifactFailureNotFatal ==
    (lgPc = "done" /\ lgWriteFailed) =>
        /\ lgResult # "raised"
        /\ IF lgStepFailed THEN lgResult = "False"
           ELSE lgVerified # None /\ lgResult = lgVerified

\* C26: is_element_present never raises: it returns True exactly when the
\* find_element call it makes with the same arguments returns a locator, and
\* False exactly when that call fails.
C26_PresentIffFound ==
    ipPc = "done" =>
        /\ ipResult \in {"True", "False"}
        /\ ipResult = "True" <=> feOutcome = "returned"
        /\ ipResult = "False" <=> feOutcome = "raised"

\* is_element_present returned False after find_element tried two selectors,
\* one timing out and one failing with another driver error.
C26_Witness ==
    /\ ipPc = "done"
    /\ hcPc = "idle"
    /\ ipResult = "False"
    /\ Len(feDetails) >= 2
    /\ feDetails[1] = "TimeoutError"
    /\ feDetails[2] = "Error"

\* C30: when the cookie banner's accept button is present and visible,
\* handle_cookie_consent clicks it and then waits for the banner to become
\* hidden; when it is absent, nothing is clicked; no exception escapes.
C30_CookieConsentHandled ==
    hcPc = "done" =>
        /\ ~hcRaised
        /\ hcButton = "absent" => ~hcClicked
        /\ hcButton = "visible" => hcClicked /\ hcWaited

\* C28: wait_for_element returns the locator whenever the element reaches the
\* requested state within the timeout, for attached, detached, visible and
\* hidden; waiting for 'hidden' or 'detached' succeeds when the element is
\* already hidden or absent.
C28_ReturnsWhenStateReached ==
    (wePc = "done" /\ weReached) => weResult = "locator"

\* C27: once the browser is launched, click_result_by_text returns False,
\* and does not raise, whenever the result is not found or the click fails,
\* also when the page query that collects the candidates raises.
C27_ClickResultNeverRaises ==
    crPc = "done" =>
        /\ crResult # "raised"
        /\ (ssRaised # None \/ ssResult = 0 \/ crClick = "Error") => crResult = "False"

\* The paths of the elements of a listed type fewer than maxDepth levels below
\* the root of the inspected tree.
RECURSIVE IN_Listed(_, _)
IN_Listed(element, path) ==
    (IF element.tag \in inParams.elementTypes /\ Len(path) < inParams.maxDepth
     THEN {path} ELSE {})
    \cup UNION {IN_Listed(element.children[i], Append(path, i)) :
                  i \in 1..Len(element.children)}

\* C29: with an element_types filter, inspect_page reports every element of a
\* listed type that lies fewer than max_depth levels below the root, when
\* those elements fit the max_elements budget, even when the root or other
\* ancestors of such an element are not of a listed type.
C29_ListedElementsReported ==
    (inPc = "done" /\ "*" \notin inParams.elementTypes
        /\ Cardinality(IN_Listed(inRoot, <<>>)) <= inParams.maxElements) =>
        IN_Listed(inRoot, <<>>) \subseteq inResult.reported

\* The strategies among the first n of the fixed order whose option is
\* present and non-empty.
FE_Applicable(n) ==
    SelectSeq(SubSeq(StrategyKeys, 1, n), LAMBDA k : feOptions[k] = "set")

\* C31: find_element tries its strategies in the order test_id, text, role,
\* tag, label, placeholder, class_name and skips those whose option is absent
\* or empty; it returns the locator of the first whose wait succeeds and tries
\* none after it; a timeout or driver exception on a strategy does not stop
\* the later ones from being tried.
C31_StrategiesInOrder ==
    fePc # "idle" =>
        LET returned == fePc = "done" /\ feOutcome = "returned"
            n == IF returned THEN feIdx ELSE feIdx - 1
        IN  /\ [i \in 1..Len(feTried) |-> feTried[i].key] = FE_Applicable(n)
            /\ \A i \in 1..Len(feTried) :
                  feTried[i].outcome = "ok" <=> (returned /\ i = Len(feTried))
            /\ (fePc = "done" /\ ~returned) => n = Len(StrategyKeys)

\* With an empty test_id, the text strategy timed out, the role strategy
\* failed with a driver error and the tag strategy's locator was returned
\* while a class_name was given as well.
C31_Witness ==
    /\ fePc = "done"
    /\ feOptions["test_id"] = "empty"
    /\ feOptions["class_name"] = "set"
    /\ feReturned = "tag"
    /\ feTried = <<[key |-> "text", outcome |-> "TimeoutError"],
                   [key |-> "role", outcome |-> "Error"],
                   [key |-> "tag", outcome |-> "ok"]>>

(* C32: one call of click_element delivers at most one click: once a click
   has been performed without error (the attempt went on to the wait for
   network idle), no later attempt of the same call clicks again. *)
C32_AtMostOneClick ==
    Cardinality({i \in 1..Len(ceLog) : ceLog[i].outcome \in {"idle_timeout", "ok"}})
        + (IF cePc = "networkidle" THEN 1 ELSE 0) <= 1

(* C33: whenever no launch or close is in progress, every browser and every
   Playwright instance the controller started and that is still running is
   the one the controller references, so at most one of each is running and
   close can reach it. *)
C33_RunningBrowserIsReferenced ==
    bcPc = "idle" =>
        \A kind \in {"browser", "playwright"} :
            \A n \in bcLive[kind] : bcRef[kind] = n

(* C34: in every state, also part-way through and after a failed launch or
   close, a page reference that is not None comes with a browser reference
   that is not None, and a browser reference that is not None comes with a
   Playwright reference that is not None. *)
C34_ReferencesNested ==
    /\ ~BC_IsNone(bcRef["page"]) => ~BC_IsNone(bcRef["browser"])
    /\ ~BC_IsNone(bcRef["browser"]) => ~BC_IsNone(bcRef["playwright"])

C34_Witness ==
    /\ bcPc = "idle"
    /\ bcResult = "raised"
    /\ BC_IsNone(bcRef["page"])
    /\ ~BC_IsNone(bcRef["browser"])
    /\ bcEntry["page"] # bcEntry["playwright"]

\* The place of an object in the order page, browser, Playwright instance.
BC_CloseRank(kind) ==
    CASE kind = "page" -> 1 [] kind = "browser" -> 2 [] kind = "playwright" -> 3

(* C35: when close has returned normally the three references are None, and
   the call closed each object it found referenced exactly once, no other,
   in the order page, browser, Playwright instance; a close that finds all
   three None, and close_browser without a page, end successfully without
   any driver call. *)
C35_CloseClearsInOrder ==
    (bcPc = "idle" /\ bcResult \in {"closed", "no_instance"}) =>
        /\ bcResult = "closed" =>
              /\ bcRef = BC_Unset
              /\ \A kind \in BC_Kinds :
                    ~BC_IsNone(bcEntry[kind]) =>
                        \E i \in 1..Len(bcCalls) :
                            bcCalls[i] = [kind |-> kind, id |-> bcEntry[kind]]
        /\ \A i, j \in 1..Len(bcCalls) :
              i < j => BC_CloseRank(bcCalls[i].kind) < BC_CloseRank(bcCalls[j].kind)
        /\ \A i \in 1..Len(bcCalls) : bcCalls[i].id = bcEntry[bcCalls[i].kind]
        /\ (bcEntry = BC_Unset \/ bcResult = "no_instance") => bcCalls = <<>>

C35_Witness ==
    /\ bcPc = "idle"
    /\ bcResult = "closed"
    /\ Len(bcCalls) = 3
    /\ bcLaunches > 1

(* C36: login runs its steps in the order navigate, cookie consent, wait
   for components, fill email, click continue, fill password, click
   sign-in, verify dashboard; a step other than the cookie consent that
   failed is the last step run; the password is filled only after
   click_continue returned, its last check having seen the password field;
   and login returns True only when all eight steps ran, the dashboard was
   verified and no step but the cookie consent failed. *)
C36_LoginStepsInOrder ==
    LET failed(i) == lsLog[i].outcome = "failed" /\ lsLog[i].step # "cookie_consent"
    IN  /\ Len(lsLog) <= Len(LS_Steps)
        /\ \A i \in 1..Len(lsLog) : lsLog[i].step = LS_Steps[i]
        /\ \A i \in 1..Len(lsLog) : failed(i) => i = Len(lsLog)
        /\ lsPc \in {"step", "continue", "shot"} =>
              /\ lsIdx = Len(lsLog) + (IF lsPc = "shot" THEN 0 ELSE 1)
              /\ \A i \in 1..Len(lsLog) : ~failed(i)
        /\ Len(lsLog) >= 6 =>
              /\ ccResult = "returned"
              /\ ccLog # <<>>
              /\ ccLog[Len(ccLog)].outcome = "password"
              /\ lsLog[5].outcome = "ok"
        /\ lsResult = "True" =>
              /\ Len(lsLog) = Len(LS_Steps)
              /\ \A i \in 1..Len(lsLog) : ~failed(i)
              /\ lsLog[Len(lsLog)] = [step |-> "verify", outcome |-> "ok"]

C36_Witness ==
    /\ lsResult = "True"
    /\ lsLog[2].outcome = "failed"
    /\ Len(ccIssued) = 3

(* C37: retry_with_backoff returns at the first attempt that succeeds, every
   earlier attempt having failed, and that attempt is the last invocation
   of the action; a wait is inserted only after a failed attempt that
   another attempt follows, never after the final failed attempt; the first
   wait is initial_delay and each later wait is double the one before. *)
C37_FirstSuccessAndWaitsBetween ==
    rbPc # "idle" =>
        /\ (rbPc = "done" /\ rbOutcome = "returned") =>
              /\ rbCalls = Len(rbWaits) + 1
              /\ rbLastError = IF rbCalls = 1 THEN RB_NoError ELSE RB_ActionError(rbCalls - 1)
        /\ rbPc = "wait" => (rbCalls < rbMax /\ Len(rbWaits) = rbCalls - 1)
        /\ (rbPc = "loop" /\ rbAttempt < rbMax) => Len(rbWaits) = rbCalls
        /\ (rbPc = "done" \/ rbAttempt >= rbMax) =>
              Len(rbWaits) = (IF rbCalls = 0 THEN 0 ELSE rbCalls - 1)
        /\ rbCalls <= rbMax
        /\ \A k \in 1..Len(rbWaits) :
              rbWaits[k] = IF k = 1 THEN rbInit ELSE 2 * rbWaits[k - 1]

C37_Witness ==
    /\ rbPc = "done"
    /\ rbOutcome = "returned"
    /\ rbCalls = 3
    /\ rbMax = 4
    /\ rbWaits = <<2, 4>>

\* The responses printed for the n-th line.
RQ_Answers(n) == {i \in 1..Len(rqOut) : rqOut[i].for = n}

(* C38: every request object whose method does not begin with
   "notifications/" is answered, once handled, by exactly one response,
   which carries the request's id and is a result, the error -32601 for a
   method that is not known, or the error -32000; a request whose method
   begins with "notifications/" gets no response; and once
   notifications/shutdown was handled it is the last line read and the loop
   has gone on to cleanup. *)
C38_OneResponsePerRequest ==
    \A n \in 1..Len(rqLog) :
        LET req == rqLog[n]
            notification == req.str /\ req.method[1] = "notifications/"
            known == {"initialize", "tools/list", "launch_browser", "navigate_to",
                      "square_login"}
        IN  /\ (req.kind = "object" /\ notification) =>
                  /\ RQ_Answers(n) = {}
                  /\ req.method[2] = "shutdown" =>
                        (n = Len(rqLog) /\ rqPc \in {"cleanup", "stopped"})
            /\ (req.kind = "object" /\ ~notification) =>
                  IF rqPc = "handling" /\ rqCur = req
                  THEN RQ_Answers(n) = {}
                  ELSE /\ Cardinality(RQ_Answers(n)) = 1
                       /\ \A i \in RQ_Answers(n) :
                             /\ rqOut[i].id = req.id
                             /\ rqOut[i].kind = "result" => req.method[2] \in known
                             /\ rqOut[i].kind = "error" =>
                                   rqOut[i].code \in {RQ_MethodNotFound, RQ_ServerError}
                             /\ (rqOut[i].code = RQ_MethodNotFound) <=>
                                   (req.str /\ req.method[2] \notin known)

C38_Witness ==
    /\ rqPc = "stopped"
    /\ Len(rqLog) = 2
    /\ rqLog[1].method = <<"", "close_browser">>
    /\ rqLog[1].id = 1
    /\ rqLog[2].method = <<"notifications/", "shutdown">>
    /\ Len(rqOut) = 1
    /\ rqOut[1].code = RQ_MethodNotFound

(* C39: in every snapshot inspect_page returns, totalElements is the number
   of elements in the returned tree, it is at most max_elements, and every
   element of the tree lies fewer than max_depth levels below the root. *)
C39_SnapshotWithinLimits ==
    inPc = "done" =>
        /\ inResult.elementCount = Cardinality(inResult.reported)
        /\ inResult.elementCount <= inParams.maxElements
        /\ \A path \in inResult.reported : Len(path) < inParams.maxDepth

\* Both limits cut: a root with two children, the second holding a child of
\* its own, inspected with max_elements 2 and max_depth 2.
C39_Witness ==
    /\ inPc = "done"
    /\ inParams.maxElements = 2
    /\ inParams.maxDepth = 2
    /\ inParams.elementTypes = {"*"}
    /\ Len(inRoot.children) = 2
    /\ Len(inRoot.children[2].children) = 1
    /\ inResult.reported = {<<>>, <<1>>}

====
